---- MODULE Spec2Model ----
(***************************************************************************)
(* A model of the neutopia randomizer: the placement engine (rando State), *)
(* the chest query/update contract of the game model (Neutopia), the       *)
(* check-catalog loader (get_checks), the bank-relative pointer codec, the *)
(* object-table codec (rom::object), the IntervalStore, and the import of  *)
(* a ROM image into the game model (Neutopia::new) and its serialization   *)
(* back into an image (Neutopia::write).                                   *)
(***************************************************************************)
EXTENDS Integers, Sequences, FiniteSets, TLC

VARIABLES
    n,                  \* State.n: the Neutopia game model the State owns
    unassigned_checks,  \* State.unassigned_checks: BTreeMap<LocationId, Check>
    unplaced_items,     \* State.unplaced_items: BTreeSet<Item>
    cleared_gates,      \* State.cleared_gates: BTreeSet<Gate>
    assigned_chests,    \* State.assigned_chests: Vec<neutopia::Chest>
    phase,              \* "live", "panicked" (assert_eq! failed) or "finalized" (self consumed)
    last,               \* the last call made on the State: its arguments and what it returned
    placed_items,       \* history: the Items whose place_item* call returned Ok
    checks_vec,         \* get_checks: the parsed catalog (serde output)
    loaded,             \* get_checks: the value returned
    data,               \* pointer codec: the three bytes handed to pointer_to_rom_offset
    decoded,            \* pointer codec: what pointer_to_rom_offset returned
    encoded,            \* pointer codec: what rom_offset_to_pointer returned for the decoded offset
    table_entry,        \* object codec: the TableEntry handed to write and chest_id
    written,            \* object codec: the bytes TableEntry::write produced for table_entry
    reparsed,           \* object codec: what parse_object_table_entry made of written
    chest_slot,         \* object codec: what chest_id returned for table_entry
    bytes,              \* object codec: the byte string handed to the table parsers
    table,              \* object codec: what parse_object_table returned for bytes
    table_len,          \* object codec: what object_table_len returned for bytes
    rewritten,          \* object codec: the bytes written from the parsed table
    intervals,          \* IntervalStore.intervals: Vec<Interval<T>>
    added,              \* history: the ranges handed to IntervalStore::add so far, and whether a merge panicked
    listed,             \* what get_intervals returned since the last add
    rom,                \* the input image as NeutopiaRom::new parsed it, with its layout
    neutopia,           \* what Neutopia::new returned for rom, as update_chests left it
    update,             \* the last update_chests call: its refs, the areas before it, its result
    image,              \* what Neutopia::write returned
    rando_pc,           \* global_rando: the statement it is at
    rando_items,        \* global_rando: its local Vec `items`, the last element popped first
    rando_area          \* global_rando: `area` of its loop over the area-locked items

vars == <<n, unassigned_checks, unplaced_items, cleared_gates, assigned_chests,
          phase, last, placed_items, checks_vec, loaded, data, decoded, encoded,
          table_entry, written, reparsed, chest_slot, bytes, table, table_len, rewritten,
          intervals, added, listed, rom, neutopia, update, image,
          rando_pc, rando_items, rando_area>>

globalVars == <<rando_pc, rando_items, rando_area>>
stateVars == <<n, unassigned_checks, unplaced_items, cleared_gates, assigned_chests,
               phase, last, placed_items, globalVars>>
catalogVars == <<checks_vec, loaded>>
pointerVars == <<data, decoded, encoded>>
objectVars == <<table_entry, written, reparsed, chest_slot, bytes, table, table_len, rewritten>>
storeVars == <<intervals, added, listed>>
gameVars == <<rom, neutopia, update, image>>
extVars == <<objectVars, storeVars, gameVars, globalVars>>

----------------------------------------------------------------------------
(* Bounds of the model. *)

\* rooms per area in the model (the ROM has 0x40)
NumRooms == 2
\* longest catalog handed to get_checks
MaxCatalog == 3

----------------------------------------------------------------------------
(* Option<T>: None is the empty sequence, Some(x) the one-element sequence. *)

None == <<>>
Some(x) == <<x>>
IsSome(o) == Len(o) = 1
Unwrap(o) == o[1]

Range(s) == {s[i] : i \in 1..Len(s)}

----------------------------------------------------------------------------
(* rom::Chest and the object-table entries the chest code looks at. *)

ChestTableLen == 8
ChestObjectBase == 76

Chest(item_id, arg) == [item_id |-> item_id, arg |-> arg, text |-> 0, unknown |-> 0]

\* TableEntry::Object(ObjectInfo {x, y, id}) and one entry of another variant
Object(x, y, id) == [tag |-> "Object", x |-> x, y |-> y, id |-> id]
DarkRoom == [tag |-> "DarkRoom"]

\* A chest id range check written with <= at both ends, as in the source.
chest_id(entry) ==
    IF entry.tag = "Object"
    THEN IF ChestObjectBase <= entry.id /\ entry.id <= ChestObjectBase + ChestTableLen
         THEN Some(entry.id - ChestObjectBase)
         ELSE None
    ELSE None

----------------------------------------------------------------------------
(* Neutopia: the chest query/update contract (neutopia/src/lib.rs).  An    *)
(* area is [rooms: Seq of [objects: Seq of TableEntry], chest_table: Seq   *)
(* of Chest]; areas maps an area index to its area.                        *)

\* neutopia::Chest: a chest value with the place it was found at
ChestRef(info, area, room, index) ==
    [info |-> info, area |-> area, room |-> room, index |-> index]

RECURSIVE Ascending(_)
Ascending(S) ==
    IF S = {} THEN <<>>
    ELSE LET m == CHOOSE x \in S : \A y \in S : x <= y
         IN  <<m>> \o Ascending(S \ {m})

\* chests found so far in front of those found after them; a panic goes through
chests_found(found, rest) ==
    IF ~rest.ok THEN rest ELSE [ok |-> TRUE, chests |-> found \o rest.chests]

\* the inner loop of filter_chests over one room's object entries from the
\* i-th on: the chests found, or the panic of area.chest_table[id] with id
\* outside the table
RECURSIVE room_chests(_, _, _, _, _)
room_chests(area, area_idx, room_idx, i, chest_index) ==
    LET objects == area.rooms[room_idx + 1].objects
    IN  IF i > Len(objects) THEN [ok |-> TRUE, chests |-> <<>>]
        ELSE LET id == chest_id(objects[i])
             IN  IF ~IsSome(id)
                 THEN room_chests(area, area_idx, room_idx, i + 1, chest_index)
                 ELSE IF Unwrap(id) + 1 > Len(area.chest_table)
                 THEN [ok |-> FALSE, err |-> "Panic"]
                 ELSE chests_found(<<ChestRef(area.chest_table[Unwrap(id) + 1],
                                              area_idx, room_idx, chest_index)>>,
                                   room_chests(area, area_idx, room_idx, i + 1,
                                               chest_index + 1))

\* the loop over an area's rooms from room_idx on
RECURSIVE area_chests(_, _, _)
area_chests(area, area_idx, room_idx) ==
    IF room_idx >= Len(area.rooms) THEN [ok |-> TRUE, chests |-> <<>>]
    ELSE LET found == room_chests(area, area_idx, room_idx, 1, 0)
         IN  IF ~found.ok THEN found
             ELSE chests_found(found.chests, area_chests(area, area_idx, room_idx + 1))

\* the loop over the areas from the k-th of order on
RECURSIVE all_chests(_, _, _)
all_chests(areas, order, k) ==
    IF k > Len(order) THEN [ok |-> TRUE, chests |-> <<>>]
    ELSE LET found == area_chests(areas[order[k]], order[k], 0)
         IN  IF ~found.ok THEN found
             ELSE chests_found(found.chests, all_chests(areas, order, k + 1))

\* the closures callers hand to filter_chests
ChestFilter(f, chest) ==
    CASE f.kind = "all" -> TRUE
      [] f.kind = "placeable" -> chest.area < 16 /\ chest.info.item_id < 18
      [] f.kind = "at" -> chest.area = f.area /\ chest.room = f.room /\ chest.index = f.index
      [] f.kind = "crypt" -> /\ chest.area = f.area
                             /\ (chest.info.item_id < 18 \/ chest.info.item_id >= 18 + 8)
\* the chests the filter keeps, in the order found; the panic comes before
\* anything is returned
filter_chests(areas, f) ==
    LET found == all_chests(areas, Ascending(DOMAIN areas), 1)
    IN  IF ~found.ok THEN found
        ELSE [ok |-> TRUE, chests |-> SelectSeq(found.chests, LAMBDA c : ChestFilter(f, c))]

RECURSIVE table_id_scan(_, _, _, _)
table_id_scan(objects, chest, i, chest_index) ==
    IF i > Len(objects) THEN None
    ELSE LET id == chest_id(objects[i])
         IN  IF IsSome(id)
             THEN IF chest_index = chest.index THEN id
                  ELSE table_id_scan(objects, chest, i + 1, chest_index + 1)
             ELSE table_id_scan(objects, chest, i + 1, chest_index)

\* Ok(id) is Some(id), Err is None
get_table_id_for_chest(areas, chest) ==
    table_id_scan(areas[chest.area].rooms[chest.room + 1].objects, chest, 1, 0)

\* update_chests's iteration writing the slot of the chest's ordinal in its room
update_chest_by_ordinal(areas, chest) ==
    LET id == get_table_id_for_chest(areas, chest)
    IN  IF ~IsSome(id) THEN [ok |-> FALSE, areas |-> areas]
        ELSE [ok |-> TRUE,
              areas |-> [areas EXCEPT ![chest.area].chest_table[chest.index + 1] = chest.info]]

\* one iteration of update_chests's loop: the areas after it, or an error
update_chest(areas, chest) ==
    LET id == get_table_id_for_chest(areas, chest)
    IN  IF ~IsSome(id) THEN [ok |-> FALSE, areas |-> areas]
        ELSE IF Unwrap(id) + 1 > Len(areas[chest.area].chest_table)
        THEN [ok |-> FALSE, areas |-> areas]
        ELSE [ok |-> TRUE,
              areas |-> [areas EXCEPT ![chest.area].chest_table[Unwrap(id) + 1] = chest.info]]

\* update_chests: the slots written before an error stay written
RECURSIVE update_chests(_, _, _)
update_chests(areas, chests, k) ==
    IF k > Len(chests) THEN [ok |-> TRUE, areas |-> areas]
    ELSE LET r == update_chest(areas, chests[k])
         IN  IF r.ok THEN update_chests(r.areas, chests, k + 1) ELSE r

----------------------------------------------------------------------------
(* The check catalog (rando/src/state.rs). *)

Gates == {"RainbowDrop", "FalconShoes", "FireWand", "Bell"}

LocationId(area, room, index) == [area |-> area, room |-> room, index |-> index]

\* a catalog entry as the JSON gives it: index is optional
JsonCheck(name, area, room, index, gates) ==
    [name |-> name, area |-> area, room |-> room, index |-> index, gates |-> gates]

\* serde: #[serde(default)] gives an absent index the value 0
deserialize_check(j) ==
    [name |-> j.name, area |-> j.area, room |-> j.room,
     index |-> IF IsSome(j.index) THEN Unwrap(j.index) ELSE 0,
     gates |-> j.gates]

loc(check) == LocationId(check.area, check.room, check.index)

\* a lookup that never finds the key
contains_key_never(map, key) == FALSE

contains_key(map, key) == key \in DOMAIN map

insert(map, key, value) == [k \in DOMAIN map \cup {key} |-> IF k = key THEN value ELSE map[k]]

remove(map, key) == [k \in DOMAIN map \ {key} |-> map[k]]

EmptyMap == [k \in {} |-> 0]

\* the loop of get_checks from entry k on
RECURSIVE get_checks_loop(_, _, _)
get_checks_loop(vec, checks, k) ==
    IF k > Len(vec) THEN [ok |-> TRUE, checks |-> checks]
    ELSE LET check == deserialize_check(vec[k])
         IN  IF contains_key(checks, loc(check))
             THEN [ok |-> FALSE, err |-> "DuplicateLocation", loc |-> loc(check)]
             ELSE get_checks_loop(vec, insert(checks, loc(check), check), k + 1)

get_checks(vec) == get_checks_loop(vec, EmptyMap, 1)

----------------------------------------------------------------------------
(* The placement engine: State (rando/src/state.rs). *)

Item(info, area_lock) == [info |-> info, area_lock |-> area_lock]

\* the loop of State::new over the chests filter_chests selected
RECURSIVE new_items(_, _)
new_items(chests, k) ==
    IF k > Len(chests) THEN {}
    ELSE LET chest == chests[k]
             area_lock == IF chest.info.item_id \in {16, 17} THEN Some(chest.area) ELSE None
         IN  {Item(chest.info, area_lock)} \cup new_items(chests, k + 1)

\* State::new: the fields of the new State, the panic of filter_chests, or
\* the error of get_checks
State_new(areas, catalog) ==
    LET chests == filter_chests(areas, [kind |-> "placeable"])
        checks == get_checks(catalog)
    IN  IF ~chests.ok THEN chests
        ELSE IF ~checks.ok THEN [ok |-> FALSE, err |-> "Err"]
        ELSE LET unplaced == new_items(chests.chests, 1) IN
             [ok |-> TRUE,
              unassigned_checks |-> checks.checks,
              unplaced_items |-> unplaced,
              cleared_gates |-> {},
              assigned_chests |-> <<>>]

\* gate_for_item with the fire wand's and the bell's gates exchanged
gate_for_item_swapped(item) ==
    CASE item.info.item_id = 2 -> Some("Bell")
      [] item.info.item_id = 3 -> Some("FireWand")
      [] item.info.item_id = 11 -> Some("FalconShoes")
      [] item.info.item_id = 12 -> Some("RainbowDrop")
      [] OTHER -> None

gate_for_item(item) ==
    CASE item.info.item_id = 2 -> Some("FireWand")
      [] item.info.item_id = 3 -> Some("Bell")
      [] item.info.item_id = 11 -> Some("FalconShoes")
      [] item.info.item_id = 12 -> Some("RainbowDrop")
      [] OTHER -> None

\* the area-lock test with its comparison inverted
area_lock_violated_inverted(item, l) ==
    IsSome(item.area_lock) /\ Unwrap(item.area_lock) = l.area

\* the area-lock test at the head of place_item_by_loc
area_lock_violated(item, l) ==
    IsSome(item.area_lock) /\ Unwrap(item.area_lock) # l.area

\* BTreeSet::remove: the set without the item
remove_item(items, item) == items \ {item}

\* a removal whose result is not looked at
remove_returns_ignored(items, item) == TRUE

\* BTreeSet::remove: what it returns, whether the item was in the set
remove_returns(items, item) == item \in items

\* the lengths compared by the assert_eq! of place_item_by_loc and is_complete
lengths_agree(checks, items) == Cardinality(DOMAIN checks) = Cardinality(items)

\* place_item_by_loc on the fields st: the fields after the call and what it returned.
\* The check is taken out of unassigned_checks before the item is looked up.
place_item_by_loc(st, item, l) ==
    IF area_lock_violated(item, l)
    THEN [st |-> st, result |-> "AreaLockViolation"]
    ELSE IF l \notin DOMAIN st.unassigned_checks
    THEN [st |-> st, result |-> "UnknownLocation"]
    ELSE LET check == st.unassigned_checks[l]
             s1 == [st EXCEPT !.unassigned_checks = remove(@, l)]
         IN  IF ~remove_returns(s1.unplaced_items, item)
             THEN [st |-> s1, result |-> "UnknownItem"]
             ELSE LET gate == gate_for_item(item)
                      chest == ChestRef(item.info, check.area, check.room, check.index)
                      s2 == [s1 EXCEPT
                                !.unplaced_items = remove_item(@, item),
                                !.cleared_gates = IF IsSome(gate) THEN @ \cup {Unwrap(gate)} ELSE @,
                                !.assigned_chests = Append(@, chest)]
                  IN  IF lengths_agree(s2.unassigned_checks, s2.unplaced_items)
                      THEN [st |-> s2, result |-> "Ok"]
                      ELSE [st |-> s2, result |-> "Panic"]

\* derive(Ord) on LocationId: area, then room, then index
loc_less(a, b) ==
    \/ a.area < b.area
    \/ a.area = b.area /\ a.room < b.room
    \/ a.area = b.area /\ a.room = b.room /\ a.index < b.index

\* BTreeMap::values: the values in the order of their keys
RECURSIVE values(_)
values(map) ==
    IF DOMAIN map = {} THEN <<>>
    ELSE LET k == CHOOSE x \in DOMAIN map : \A y \in DOMAIN map \ {x} : loc_less(x, y)
         IN  <<map[k]>> \o values(remove(map, k))

\* the closures callers hand to filter_checks and filter_checks_gateless
CheckFilter(f, check) ==
    CASE f.kind = "all" -> TRUE
      [] f.kind = "area" -> check.area = f.area

\* a gate loop that looks at the first gate only
gates_cleared_first_only(gates, cleared, i) ==
    IF i > Len(gates) THEN TRUE ELSE gates[i] \in cleared

\* the inner loop of filter_checks: FALSE stands for continue 'check
RECURSIVE gates_cleared(_, _, _)
gates_cleared(gates, cleared, i) ==
    IF i > Len(gates) THEN TRUE
    ELSE IF gates[i] \notin cleared THEN FALSE
    ELSE gates_cleared(gates, cleared, i + 1)

\* filter_checks without the loop over the check's gates
filter_checks_ungated(st, f) ==
    SelectSeq(values(st.unassigned_checks), LAMBDA check : CheckFilter(f, check))

filter_checks(st, f) ==
    SelectSeq(values(st.unassigned_checks),
              LAMBDA check : gates_cleared(check.gates, st.cleared_gates, 1)
                             /\ CheckFilter(f, check))

filter_checks_gateless(st, f) ==
    SelectSeq(values(st.unassigned_checks), LAMBDA check : CheckFilter(f, check))

\* the order of the unplaced items' BTreeSet: by info (item_id, arg, text,
\* unknown), then by area_lock, None before Some
item_key(item) ==
    <<item.info.item_id, item.info.arg, item.info.text, item.info.unknown,
      IF IsSome(item.area_lock) THEN 1 + Unwrap(item.area_lock) ELSE 0>>

RECURSIVE key_less(_, _, _)
key_less(a, b, i) ==
    IF i > Len(a) THEN FALSE
    ELSE a[i] < b[i] \/ (a[i] = b[i] /\ key_less(a, b, i + 1))

item_less(a, b) == key_less(item_key(a), item_key(b), 1)

\* iteration over a BTreeSet<Item>: its members in ascending order
RECURSIVE iter_items(_)
iter_items(set) ==
    IF set = {} THEN <<>>
    ELSE LET m == CHOOSE x \in set : \A y \in set \ {x} : item_less(x, y)
         IN  <<m>> \o iter_items(set \ {m})

\* the closures global_rando hands to filter_items and get_item_by_id
ItemFilter(f, item) ==
    CASE f.kind = "all" -> TRUE
      [] f.kind = "id" -> item.info.item_id = f.id
      [] f.kind = "locked" -> IsSome(item.area_lock) /\ Unwrap(item.area_lock) = f.area
      [] f.kind = "gate_items" -> item.info.item_id \in {2, 3, 11, 12}

filter_items(st, f) ==
    SelectSeq(iter_items(st.unplaced_items), LAMBDA item : ItemFilter(f, item))

\* get_item_by_id: the one unplaced item of that id, or an error
get_item_by_id(st, id) ==
    IF Len(filter_items(st, [kind |-> "id", id |-> id])) # 1
    THEN [ok |-> FALSE, err |-> "Err"]
    ELSE [ok |-> TRUE, item |-> filter_items(st, [kind |-> "id", id |-> id])[1]]

\* finalize: update_chests with the recorded assignments
finalize(areas, st) == update_chests(areas, st.assigned_chests, 1)

----------------------------------------------------------------------------
(* The inputs of the placement model: a family of small ROMs and a catalog. *)

ModelAreas == {5, 6}

CrystalBall == Chest(16, 0)
SkyBell == Chest(3, 0)
Medallion == Chest(18, 0)
Wings == Chest(4, 0)
CryptKey == Chest(17, 0)
Placeholder == Chest(7, 0)

\* the item ids area 6's first chest may hold: fire wand, falcon shoes, rainbow drop
GateItemIds == {2, 11, 12}
\* the chest-table slot of area 5's second chest object, or no second object
SecondChest == {None, Some(0), Some(1)}

ChestTable(first, second) ==
    [i \in 1..ChestTableLen |-> IF i = 1 THEN first ELSE IF i = 2 THEN second ELSE Placeholder]

Rooms(first, second) ==
    [r \in 1..NumRooms |->
        [objects |-> IF r = 1 THEN first ELSE IF r = 2 THEN second ELSE <<>>]]

\* Area 5, room 0 holds one chest object, another entry and possibly a second
\* chest object, which may name the first one's slot; area 6 holds one chest
\* in each of rooms 0 and 1.
MkRom(g, k) ==
    [a \in ModelAreas |->
        IF a = 5
        THEN [rooms |-> Rooms(<<Object(3, 4, ChestObjectBase), DarkRoom>>
                              \o (IF IsSome(k)
                                  THEN <<Object(5, 6, ChestObjectBase + Unwrap(k))>>
                                  ELSE <<>>),
                              <<>>),
              chest_table |-> ChestTable(CrystalBall, SkyBell)]
        ELSE [rooms |-> Rooms(<<Object(1, 1, ChestObjectBase)>>,
                              <<DarkRoom, Object(2, 2, ChestObjectBase + 1)>>),
              chest_table |-> ChestTable(Chest(g, 0),
                                         IF k = Some(1) THEN Medallion ELSE SkyBell)]]

ModelCatalog ==
    <<JsonCheck("crypt 2 first", 5, 0, None, <<>>),
      JsonCheck("crypt 2 second", 5, 0, Some(1), <<"Bell">>),
      JsonCheck("crypt 3 first", 6, 0, Some(0), <<"FireWand", "Bell">>)>>

\* the Items and locations callers pass: those of the pools, an item locked to
\* another area, an item no chest holds, and a location outside the catalog
CallItems ==
    new_items(filter_chests(n, [kind |-> "placeable"]).chests, 1)
        \cup {Item(CrystalBall, Some(6)), Item(Wings, None)}

CallLocs == {loc(deserialize_check(ModelCatalog[i])) : i \in 1..Len(ModelCatalog)}
                \cup {LocationId(6, 1, 0)}

CallFilters == {[kind |-> "all"], [kind |-> "area", area |-> 5], [kind |-> "area", area |-> 6]}

\* the fields of the State as one record
Fields ==
    [unassigned_checks |-> unassigned_checks,
     unplaced_items |-> unplaced_items,
     cleared_gates |-> cleared_gates,
     assigned_chests |-> assigned_chests]

----------------------------------------------------------------------------
(* The placement engine as a state machine. *)

StateInit ==
    \E g \in GateItemIds, k \in SecondChest :
        LET areas == MkRom(g, k)
            st == State_new(areas, ModelCatalog)
        IN  /\ st.ok
            /\ n = areas
            /\ unassigned_checks = st.unassigned_checks
            /\ unplaced_items = st.unplaced_items
            /\ cleared_gates = st.cleared_gates
            /\ assigned_chests = st.assigned_chests
            /\ phase = "live"
            /\ last = [op |-> "new"]
            /\ placed_items = {}

IdleCatalog == checks_vec = <<>> /\ loaded = None
IdlePointer == data = <<0, 0, 0>> /\ decoded = None /\ encoded = None
IdleObject ==
    /\ table_entry = None /\ written = None /\ reparsed = None /\ chest_slot = None
    /\ bytes = <<>> /\ table = None /\ table_len = None /\ rewritten = None
IdleStore == intervals = <<>> /\ added = [ranges |-> {}, panicked |-> FALSE] /\ listed = None
IdleGame == rom = None /\ neutopia = None /\ update = None /\ image = None
IdleGlobal == rando_pc = "idle" /\ rando_items = <<>> /\ rando_area = 0
IdleExt == IdleObject /\ IdleStore /\ IdleGame /\ IdleGlobal

Init == StateInit /\ IdleCatalog /\ IdlePointer /\ IdleExt

\* the effect of a place_item* call named op
Placed(op, item, l) ==
    LET r == place_item_by_loc(Fields, item, l)
    IN  /\ phase = "live"
        /\ unassigned_checks' = r.st.unassigned_checks
        /\ unplaced_items' = r.st.unplaced_items
        /\ cleared_gates' = r.st.cleared_gates
        /\ assigned_chests' = r.st.assigned_chests
        /\ phase' = IF r.result = "Panic" THEN "panicked" ELSE "live"
        /\ last' = [op |-> op, item |-> item, loc |-> l, result |-> r.result]
        /\ placed_items' = IF r.result = "Ok" THEN placed_items \cup {item} ELSE placed_items
        /\ UNCHANGED <<n, catalogVars, pointerVars, extVars>>

PlaceItemByLoc == \E item \in CallItems, l \in CallLocs : Placed("place_item_by_loc", item, l)

PlaceItem ==
    \E item \in CallItems, l \in CallLocs :
        Placed("place_item", item, LocationId(l.area, l.room, l.index))

IsComplete ==
    /\ phase = "live"
    /\ IF lengths_agree(unassigned_checks, unplaced_items)
       THEN /\ last' = [op |-> "is_complete", out |-> (DOMAIN unassigned_checks = {})]
            /\ phase' = phase
       ELSE /\ last' = [op |-> "is_complete", result |-> "Panic"]
            /\ phase' = "panicked"
    /\ UNCHANGED <<n, unassigned_checks, unplaced_items, cleared_gates, assigned_chests,
                   placed_items, catalogVars, pointerVars, extVars>>

FilterChecks ==
    \E f \in CallFilters :
        /\ phase = "live"
        /\ last' = [op |-> "filter_checks", filter |-> f, out |-> filter_checks(Fields, f)]
        /\ UNCHANGED <<n, unassigned_checks, unplaced_items, cleared_gates, assigned_chests,
                       phase, placed_items, catalogVars, pointerVars, extVars>>

FilterChecksGateless ==
    \E f \in CallFilters :
        /\ phase = "live"
        /\ last' = [op |-> "filter_checks_gateless", filter |-> f,
                    out |-> filter_checks_gateless(Fields, f)]
        /\ UNCHANGED <<n, unassigned_checks, unplaced_items, cleared_gates, assigned_chests,
                       phase, placed_items, catalogVars, pointerVars, extVars>>

\* finalize consumes the State and returns its Neutopia, or update_chests's error
Finalize ==
    LET r == finalize(n, Fields)
    IN  /\ phase = "live"
        /\ n' = r.areas
        /\ phase' = "finalized"
        /\ last' = [op |-> "finalize", result |-> IF r.ok THEN "Ok" ELSE "Err"]
        /\ UNCHANGED <<unassigned_checks, unplaced_items, cleared_gates, assigned_chests,
                       placed_items, catalogVars, pointerVars, extVars>>

Next ==
    \/ PlaceItemByLoc
    \/ PlaceItem
    \/ IsComplete
    \/ FilterChecks
    \/ FilterChecksGateless
    \/ Finalize

Spec == Init /\ [][Next]_vars

----------------------------------------------------------------------------
(* Properties of the placement engine. *)

PlaceOps == {"place_item", "place_item_by_loc"}
PlaceErrors == {"AreaLockViolation", "UnknownLocation", "UnknownItem"}
pools == <<unassigned_checks, unplaced_items, cleared_gates, assigned_chests>>

\* C1: whenever a place_item / place_item_by_loc call has returned, the number
\* of unassigned checks equals the number of unplaced items (the run starts
\* with the two equal).
C1_PoolsSameSizeAfterPlace ==
    last.op \in PlaceOps =>
        Cardinality(DOMAIN unassigned_checks) = Cardinality(unplaced_items)

\* C2: a place_item* call that returns an error changes none of
\* unassigned_checks, unplaced_items, cleared_gates and the recorded
\* assignments; a call that returns Ok takes exactly one check and one item out.
C2_PlaceIsAtomic ==
    [][last'.op \in PlaceOps =>
          /\ last'.result \in PlaceErrors => UNCHANGED pools
          /\ last'.result = "Ok" =>
                /\ Cardinality(DOMAIN unassigned_checks') = Cardinality(DOMAIN unassigned_checks) - 1
                /\ Cardinality(unplaced_items') = Cardinality(unplaced_items) - 1]_vars

\* C3: a place_item* call with an item locked to an area other than the
\* location's fails with the area-lock violation, pending or not, and removes
\* nothing from the pools.
C3_AreaLockRejected ==
    [][(/\ last'.op \in PlaceOps
        /\ last'.item.area_lock # None
        /\ last'.item.area_lock[1] # last'.loc.area)
       => /\ last'.result = "AreaLockViolation"
          /\ UNCHANGED pools]_vars

\* C3 witness: the crystal ball locked to area 5, still unplaced, was refused
\* at a still-unassigned location of area 6.
C3_Witness ==
    /\ last.op = "place_item_by_loc"
    /\ last.item.area_lock = Some(5)
    /\ last.loc.area = 6
    /\ last.result = "AreaLockViolation"
    /\ last.item \in unplaced_items
    /\ last.loc \in DOMAIN unassigned_checks

\* C4 as stated: a call that passes an Item already placed, at any location
\* still unassigned, fails with the unknown-item error.
C4_SecondPlaceUnknownItem ==
    [][(/\ last'.op \in PlaceOps
        /\ last'.item \in placed_items
        /\ last'.loc \in DOMAIN unassigned_checks)
       => last'.result = "UnknownItem"]_vars

\* C4 amended: a call that passes an Item already placed, at any location still
\* unassigned, fails: with the unknown-item error when the item's area lock
\* admits the location, with the area-lock violation when it does not.
C4_SecondPlaceFails ==
    [][(/\ last'.op \in PlaceOps
        /\ last'.item \in placed_items
        /\ last'.loc \in DOMAIN unassigned_checks)
       => IF last'.item.area_lock = None \/ last'.item.area_lock = Some(last'.loc.area)
          THEN last'.result = "UnknownItem"
          ELSE last'.result = "AreaLockViolation"]_vars

\* C4 witness: an Item placed before was passed again at a location that was
\* unassigned, and the call returned the unknown-item error.
C4_Witness ==
    /\ last.op \in PlaceOps
    /\ last.item \in placed_items
    /\ last.result = "UnknownItem"
    /\ Len(assigned_chests) >= 1

\* the gate the documentation gives an item id
GateOfItemId(id) ==
    IF id = 2 THEN {"FireWand"}
    ELSE IF id = 3 THEN {"Bell"}
    ELSE IF id = 11 THEN {"FalconShoes"}
    ELSE IF id = 12 THEN {"RainbowDrop"}
    ELSE {}

\* C5: cleared_gates holds exactly the gates of the item ids of the recorded
\* assignments (0x02 FireWand, 0x03 Bell, 0x0b FalconShoes, 0x0c RainbowDrop,
\* nothing for any other id); unless a call panicked at its final assertion,
\* the recorded assignments are those of the calls that returned Ok; and no
\* step removes a gate.
C5_GatesFollowPlacedItems ==
    /\ [](cleared_gates =
            UNION {GateOfItemId(assigned_chests[i].info.item_id) : i \in 1..Len(assigned_chests)})
    /\ [](phase # "panicked" =>
            {i.info : i \in placed_items} = {assigned_chests[i].info : i \in 1..Len(assigned_chests)})
    /\ [][cleared_gates \subseteq cleared_gates']_vars

\* C5 witness: a gate item and an item that grants no gate were both placed,
\* and only the gate item's gate is cleared.
C5_Witness ==
    /\ phase = "live"
    /\ Cardinality(cleared_gates) = 1
    /\ \E i \in placed_items : i.info.item_id \in {2, 3, 11, 12}
    /\ \E i \in placed_items : i.info.item_id = 16

\* the checks still unassigned
Unassigned == {unassigned_checks[l] : l \in DOMAIN unassigned_checks}

NoDuplicates(s) == \A i, j \in 1..Len(s) : s[i] = s[j] => i = j

\* C6: filter_checks returns, each once, exactly the unassigned checks whose
\* gates are all cleared and that satisfy the predicate; filter_checks_gateless
\* returns, each once, exactly the unassigned checks that satisfy the predicate.
\* Neither returns a check an assignment was recorded for.
C6_FilterChecksExact ==
    /\ last.op = "filter_checks" =>
        /\ NoDuplicates(last.out)
        /\ Range(last.out) =
             {c \in Unassigned : /\ \A g \in Range(c.gates) : g \in cleared_gates
                                 /\ CheckFilter(last.filter, c)}
        /\ \A c \in Range(last.out) : \A i \in 1..Len(assigned_chests) :
             loc(c) # loc(assigned_chests[i])
    /\ last.op = "filter_checks_gateless" =>
        /\ NoDuplicates(last.out)
        /\ Range(last.out) = {c \in Unassigned : CheckFilter(last.filter, c)}
        /\ \A c \in Range(last.out) : \A i \in 1..Len(assigned_chests) :
             loc(c) # loc(assigned_chests[i])

\* C6 witness: filter_checks returned a gated check whose gate is cleared and
\* left out an unassigned check that satisfies the predicate but has an
\* uncleared gate.
C6_Witness ==
    /\ last.op = "filter_checks"
    /\ \E c \in Range(last.out) : Len(c.gates) > 0
    /\ \E c \in Unassigned :
         /\ CheckFilter(last.filter, c)
         /\ c \notin Range(last.out)

\* the chests filter_chests reports at the place of an assignment
ReportedAt(c) ==
    filter_chests(n, [kind |-> "at", area |-> c.area, room |-> c.room,
                      index |-> c.index]).chests

\* C7 as stated: after a successful finalize, filter_chests reports at the
\* place of every recorded assignment a chest with the assigned item's info.
C7_FinalizeAppliesEvery ==
    (last.op = "finalize" /\ last.result = "Ok") =>
        \A i \in 1..Len(assigned_chests) :
            LET c == assigned_chests[i]
            IN  ReportedAt(c) = <<ChestRef(c.info, c.area, c.room, c.index)>>

\* two assignments in one area whose chest objects name the same chest-table slot
SameSlot(c, d) ==
    /\ c.area = d.area
    /\ get_table_id_for_chest(n, c) = get_table_id_for_chest(n, d)

\* C7 amended: after a successful finalize, filter_chests reports at the place
\* of a recorded assignment a chest with the assigned item's info, unless a
\* later recorded assignment went to a chest object naming the same
\* chest-table slot; the last assignment to a slot is the one reported.
C7_FinalizeAppliesLast ==
    (last.op = "finalize" /\ last.result = "Ok") =>
        \A i \in 1..Len(assigned_chests) :
            LET c == assigned_chests[i]
            IN  (\A j \in (i + 1)..Len(assigned_chests) : ~SameSlot(c, assigned_chests[j]))
                => ReportedAt(c) = <<ChestRef(c.info, c.area, c.room, c.index)>>

\* C7 witness: finalize succeeded with three recorded assignments, one of
\* which changed what its chest held.
C7_Witness ==
    /\ last.op = "finalize"
    /\ last.result = "Ok"
    /\ Len(assigned_chests) = 3
    /\ assigned_chests[1].area = 6
    /\ assigned_chests[1].info = SkyBell

----------------------------------------------------------------------------
(* The check-catalog loader as a state machine: a catalog is drawn, then    *)
(* get_checks is applied to it.                                             *)

CatalogAreas == {5, 6}
CatalogRooms == {0, 1}
CatalogIndexes == {None, Some(0), Some(1)}

CatalogEntries ==
    {JsonCheck("check", a, r, i, <<>>) :
        a \in CatalogAreas, r \in CatalogRooms, i \in CatalogIndexes}

RECURSIVE SeqsUpTo(_, _)
SeqsUpTo(S, len) ==
    IF len = 0 THEN {<<>>}
    ELSE LET shorter == SeqsUpTo(S, len - 1)
         IN  shorter \cup {Append(q, x) : q \in {t \in shorter : Len(t) = len - 1}, x \in S}

IdleState ==
    /\ n = EmptyMap
    /\ unassigned_checks = EmptyMap
    /\ unplaced_items = {}
    /\ cleared_gates = {}
    /\ assigned_chests = <<>>
    /\ phase = "idle"
    /\ last = [op |-> "none"]
    /\ placed_items = {}
    /\ IdleGlobal

CatalogInit ==
    /\ checks_vec \in SeqsUpTo(CatalogEntries, MaxCatalog)
    /\ loaded = None
    /\ IdleState
    /\ IdlePointer
    /\ IdleExt

GetChecks ==
    /\ loaded = None
    /\ loaded' = Some(get_checks(checks_vec))
    /\ UNCHANGED <<checks_vec, stateVars, pointerVars, extVars>>

CatalogNext == GetChecks

SpecCatalog == CatalogInit /\ [][CatalogNext]_vars

\* the location of a catalog entry, an absent index read as 0
EntryLoc(j) ==
    [area |-> j.area, room |-> j.room, index |-> IF j.index = None THEN 0 ELSE j.index[1]]

HasDuplicate(vec) ==
    \E i, j \in 1..Len(vec) : i # j /\ EntryLoc(vec[i]) = EntryLoc(vec[j])

\* C8: get_checks fails with the duplicate-location error exactly when two
\* catalog entries have the same (area, room, index), an absent index read as
\* 0; when it succeeds the map has one entry per catalog entry, under that
\* entry's location.
C8_DuplicateLocationIffRepeated ==
    loaded # None =>
        LET r == loaded[1]
        IN  /\ r.ok <=> ~HasDuplicate(checks_vec)
            /\ ~r.ok => r.err = "DuplicateLocation"
            /\ r.ok =>
                /\ DOMAIN r.checks = {EntryLoc(checks_vec[i]) : i \in 1..Len(checks_vec)}
                /\ Cardinality(DOMAIN r.checks) = Len(checks_vec)
                /\ \A i \in 1..Len(checks_vec) :
                     LET c == r.checks[EntryLoc(checks_vec[i])]
                     IN  /\ loc(c) = EntryLoc(checks_vec[i])
                         /\ c.name = checks_vec[i].name
                         /\ c.gates = checks_vec[i].gates

\* C8 witness: a catalog of three entries, one without an index and one with
\* index 0 in the same room, was refused.
C8_Witness ==
    /\ loaded # None
    /\ ~loaded[1].ok
    /\ Len(checks_vec) = 3
    /\ \E i, j \in 1..3 :
         /\ checks_vec[i].index = None
         /\ checks_vec[j].index = Some(0)
         /\ checks_vec[i].area = checks_vec[j].area
         /\ checks_vec[i].room = checks_vec[j].room

----------------------------------------------------------------------------
(* The bank-relative pointer codec (neutopia/src/util.rs). *)

\* u32 arithmetic on values cast from u8: a byte shifted left by at most 13
\* bits and the sums below stay under 2^22, so the 32-bit width truncates nothing
RECURSIVE BitAnd(_, _)
BitAnd(a, b) ==
    IF a = 0 \/ b = 0 THEN 0
    ELSE (a % 2) * (b % 2) + 2 * BitAnd(a \div 2, b \div 2)

RECURSIVE BitOr(_, _)
BitOr(a, b) ==
    IF a = 0 THEN b
    ELSE IF b = 0 THEN a
    ELSE (IF a % 2 = 1 \/ b % 2 = 1 THEN 1 ELSE 0) + 2 * BitOr(a \div 2, b \div 2)

Shl(a, k) == a * 2 ^ k
Shr(a, k) == a \div 2 ^ k

\* the lowest raw value of a pointer into the mapped bank window
BankBase == 262144

\* a raw value with the first byte shifted by 12 bits only: its field
\* overlaps the top bit of the third byte's field
pointer_value_overlapping(d) ==
    BitOr(BitOr(Shl(d[1], 12), Shl(BitAnd(d[3], 31), 8)), d[2])

\* the raw value pointer_to_rom_offset assembles from d[1], d[2], d[3]
pointer_value(d) ==
    BitOr(BitOr(Shl(d[1], 13), Shl(BitAnd(d[3], 31), 8)), d[2])

\* a decode without the range test: the subtraction goes below zero
pointer_to_rom_offset_unchecked(d) ==
    [ok |-> TRUE, offset |-> pointer_value(d) - BankBase]

\* a decode that keeps only four bits of the third byte
pointer_to_rom_offset_four_bits(d) ==
    LET value == BitOr(BitOr(Shl(d[1], 13), Shl(BitAnd(d[3], 15), 8)), d[2])
    IN  IF value < BankBase
        THEN [ok |-> FALSE, err |-> "InvalidPointer"]
        ELSE [ok |-> TRUE, offset |-> value - BankBase]

pointer_to_rom_offset(d) ==
    LET value == pointer_value(d)
    IN  IF value < BankBase
        THEN [ok |-> FALSE, err |-> "InvalidPointer"]
        ELSE [ok |-> TRUE, offset |-> value - BankBase]

\* The encoder, the inverse the documentation describes: the offset plus the
\* bank base is split into the same three bit fields, and the third byte
\* carries the bank bits 0x40 of the documented sample pointers.  The masks
\* are taken as remainders: value & 0xff is value % 256, (value >> 8) & 0x1f
\* is Shr(value, 8) % 32, and | 0x40 adds 64 to a value below 32.
rom_offset_to_pointer(offset) ==
    LET value == offset + BankBase
    IN  <<Shr(value, 13) % 256,
          value % 256,
          (Shr(value, 8) % 32) + 64>>

\* the bytes the pointer model is run on: every first byte, and second and
\* third bytes that cover the sample pointers, the extremes and every
\* setting of the third byte's high bits around a value
FirstBytes == 0..255
SecondBytes == {0, 68, 78, 255}
ThirdBytes == {0, 5, 31, 69, 81, 95, 224, 255}

PointerInit ==
    /\ data \in {<<b0, b1, b2>> : b0 \in FirstBytes, b1 \in SecondBytes, b2 \in ThirdBytes}
    /\ decoded = None
    /\ encoded = None
    /\ IdleState
    /\ IdleCatalog
    /\ IdleExt

Decode ==
    /\ decoded = None
    /\ decoded' = Some(pointer_to_rom_offset(data))
    /\ UNCHANGED <<data, encoded, stateVars, catalogVars, extVars>>

Encode ==
    /\ decoded # None
    /\ decoded[1].ok
    /\ encoded = None
    /\ encoded' = Some(rom_offset_to_pointer(decoded[1].offset))
    /\ UNCHANGED <<data, decoded, stateVars, catalogVars, extVars>>

PointerNext ==
    \/ Decode
    \/ Encode

SpecPointer == PointerInit /\ [][PointerNext]_vars

\* the raw value of a byte triple, by arithmetic on its three bit fields
RawValue(d) == d[1] * 8192 + (d[3] % 32) * 256 + d[2]

\* C9: decoding a triple returns its raw value less 0x40000 when the raw
\* value is at least 0x40000 and an error when it is below, never a wrapped
\* or negative offset; (0, 0, 0) is an error.
C9_DecodeOffsetOrError ==
    decoded # None =>
        /\ IF RawValue(data) >= 262144
           THEN decoded[1] = [ok |-> TRUE, offset |-> RawValue(data) - 262144]
           ELSE ~decoded[1].ok
        /\ decoded[1].ok => decoded[1].offset >= 0 /\ decoded[1].offset < 2 ^ 21
        /\ data = <<0, 0, 0>> => ~decoded[1].ok

\* C9 witness: (0, 0, 0) was decoded and refused.
C9_Witness ==
    /\ data = <<0, 0, 0>>
    /\ decoded # None
    /\ ~decoded[1].ok
    /\ decoded[1].err = "InvalidPointer"

\* C10 as stated: encoding the decoded offset of any valid triple gives the
\* triple back.
C10_EncodeInvertsDecode ==
    encoded # None => encoded[1] = data

\* C10 amended: encoding the decoded offset of a valid triple gives back its
\* first and second byte and the low five bits of its third byte, and the
\* whole triple when the third byte's three high bits are 010, as in the
\* sample triples (0x48, 0x4e, 0x45) and (0x49, 0x44, 0x51).
C10_EncodeInvertsDecodeOnFields ==
    encoded # None =>
        /\ encoded[1][1] = data[1]
        /\ encoded[1][2] = data[2]
        /\ encoded[1][3] % 32 = data[3] % 32
        /\ data[3] \div 32 = 2 => encoded[1] = data
        /\ pointer_to_rom_offset(encoded[1]) = decoded[1]

\* C10 witness: the sample triple (0x49, 0x44, 0x51) decoded to 0x53144 and
\* was encoded back to itself.
C10_Witness ==
    /\ data = <<73, 68, 81>>
    /\ decoded = Some([ok |-> TRUE, offset |-> 340292])
    /\ encoded = Some(data)

----------------------------------------------------------------------------
(* The object-table codec (neutopia/src/rom/object.rs).  An entry is a     *)
(* record with its variant's name in tag and the variant's payload: x, y   *)
(* and id for the ObjectInfo variants, a byte in byte for the u8 variants, *)
(* a byte array in data for the array variants, nothing for the others.    *)

\* the parsers in the order alt tries them, each with its tag byte, the
\* macro that generated it and the bytes it takes after the tag
Parsers ==
    <<[ty |-> "Object", tag |-> 0, kind |-> "object", size |-> 2],
      [ty |-> "OpenDoor", tag |-> 1, kind |-> "u8", size |-> 1],
      [ty |-> "PushBlockGatedDoor", tag |-> 2, kind |-> "u8", size |-> 1],
      [ty |-> "EnemyGatedDoor", tag |-> 3, kind |-> "u8", size |-> 1],
      [ty |-> "BombableDoor", tag |-> 5, kind |-> "u8", size |-> 1],
      [ty |-> "PushBlockGatedObject", tag |-> 6, kind |-> "object", size |-> 2],
      [ty |-> "EnemyGatedObject", tag |-> 7, kind |-> "object", size |-> 2],
      [ty |-> "BellGatedObject", tag |-> 8, kind |-> "object", size |-> 2],
      [ty |-> "DarkRoom", tag |-> 9, kind |-> "simple", size |-> 0],
      [ty |-> "Unknown0b", tag |-> 11, kind |-> "data", size |-> 3],
      [ty |-> "Burnable", tag |-> 12, kind |-> "object", size |-> 2],
      [ty |-> "HiddenRoom", tag |-> 13, kind |-> "data", size |-> 3],
      [ty |-> "FalconBootsNeeded", tag |-> 129, kind |-> "simple", size |-> 0],
      [ty |-> "Npc", tag |-> 154, kind |-> "data", size |-> 5],
      [ty |-> "BossDoor", tag |-> 10, kind |-> "u8", size |-> 1],
      [ty |-> "OuchRope", tag |-> 189, kind |-> "object", size |-> 2],
      [ty |-> "ArrowLauncher", tag |-> 191, kind |-> "object", size |-> 2],
      [ty |-> "Swords", tag |-> 192, kind |-> "object", size |-> 2],
      [ty |-> "GhostSpawner", tag |-> 193, kind |-> "object", size |-> 2],
      [ty |-> "FireballSpawner", tag |-> 198, kind |-> "object", size |-> 2],
      [ty |-> "ShopItem", tag |-> 218, kind |-> "data", size |-> 7],
      [ty |-> "UnknownE1", tag |-> 225, kind |-> "data", size |-> 9],
      [ty |-> "UnknownF4", tag |-> 244, kind |-> "data", size |-> 5]>>

\* the parser and writer generated for a variant
ParserOf(ty) == Parsers[CHOOSE k \in 1..Len(Parsers) : Parsers[k].ty = ty]

\* parse_object_info with the nibbles taken from the wrong ends
parse_object_info_swapped(i) ==
    IF Len(i) < 2 THEN [ok |-> FALSE]
    ELSE [ok |-> TRUE, rest |-> SubSeq(i, 3, Len(i)),
          info |-> [x |-> Shr(i[1], 4), y |-> BitAnd(i[1], 15), id |-> i[2]]]

parse_object_info(i) ==
    IF Len(i) < 2 THEN [ok |-> FALSE]
    ELSE [ok |-> TRUE, rest |-> SubSeq(i, 3, Len(i)),
          info |-> [x |-> BitAnd(i[1], 15), y |-> Shr(i[1], 4), id |-> i[2]]]

\* ObjectInfo::write leaving y in the low nibble
ObjectInfo_write_unshifted(info) ==
    <<BitOr(BitAnd(info.x, 15), BitAnd(info.y, 15)), info.id>>

ObjectInfo_write(info) ==
    <<BitOr(BitAnd(info.x, 15), Shl(BitAnd(info.y, 15), 4)), info.id>>

\* the write_* function of the entry's variant
TableEntry_write(e) ==
    LET p == ParserOf(e.tag)
    IN  <<p.tag>> \o
        (CASE p.kind = "object" -> ObjectInfo_write(e)
           [] p.kind = "u8" -> <<e.byte>>
           [] p.kind = "simple" -> <<>>
           [] p.kind = "data" -> e.data)

\* one parse_* function: the tag, then the payload
parse_with(p, i) ==
    IF Len(i) = 0 \/ i[1] # p.tag THEN [ok |-> FALSE]
    ELSE LET rest == Tail(i)
         IN  CASE p.kind = "object" ->
                    LET r == parse_object_info(rest)
                    IN  IF r.ok
                        THEN [ok |-> TRUE, rest |-> r.rest,
                              entry |-> [tag |-> p.ty, x |-> r.info.x,
                                         y |-> r.info.y, id |-> r.info.id]]
                        ELSE [ok |-> FALSE]
               [] p.kind = "u8" ->
                    IF Len(rest) < 1 THEN [ok |-> FALSE]
                    ELSE [ok |-> TRUE, rest |-> Tail(rest),
                          entry |-> [tag |-> p.ty, byte |-> rest[1]]]
               [] p.kind = "simple" ->
                    [ok |-> TRUE, rest |-> rest, entry |-> [tag |-> p.ty]]
               [] p.kind = "data" ->
                    IF Len(rest) < p.size THEN [ok |-> FALSE]
                    ELSE [ok |-> TRUE, rest |-> SubSeq(rest, p.size + 1, Len(rest)),
                          entry |-> [tag |-> p.ty, data |-> SubSeq(rest, 1, p.size)]]

\* alt: the first parser from the k-th on that succeeds
RECURSIVE alt(_, _)
alt(i, k) ==
    IF k > Len(Parsers) THEN [ok |-> FALSE]
    ELSE LET r == parse_with(Parsers[k], i)
         IN  IF r.ok THEN r ELSE alt(i, k + 1)

parse_object_table_entry(i) == alt(i, 1)

\* many0: entries are taken until one fails to parse; what is left is returned
RECURSIVE many0(_)
many0(i) ==
    LET r == parse_object_table_entry(i)
    IN  IF ~r.ok THEN [rest |-> i, table |-> <<>>]
        ELSE LET m == many0(r.rest)
             IN  [rest |-> m.rest, table |-> <<r.entry>> \o m.table]

\* object_table_len accepting only an empty remainder
object_table_len_strict(d) ==
    LET m == many0(d)
    IN  IF Len(m.rest) # 0
        THEN [ok |-> FALSE, err |-> "unparsed input"]
        ELSE [ok |-> TRUE, len |-> Len(d) - Len(m.rest)]

object_table_len(d) ==
    LET m == many0(d)
    IN  IF Len(m.rest) # 0 /\ m.rest[1] # 255
        THEN [ok |-> FALSE, err |-> "unparsed input"]
        ELSE [ok |-> TRUE, len |-> Len(d) - Len(m.rest)]

parse_object_table(d) ==
    LET m == many0(d)
    IN  IF Len(m.rest) # 0
        THEN [ok |-> FALSE, err |-> "unparsed input"]
        ELSE [ok |-> TRUE, table |-> m.table]

\* the loop writing every entry of a table in order, nothing appended
RECURSIVE write_table(_)
write_table(t) ==
    IF t = <<>> THEN <<>> ELSE TableEntry_write(Head(t)) \o write_table(Tail(t))

is_conditional(e) == e.tag = "Unknown0b"

entry_loc(e) == IF e.tag = "Object" THEN Some(<<e.x, e.y>>) ELSE None

----------------------------------------------------------------------------
(* The object codec as a state machine: an entry is written and the bytes  *)
(* parsed back; a byte string is measured, parsed and written back.        *)

\* longest byte string handed to the table parsers
MaxTableBytes == 5

\* coordinates: the ends of the 4-bit range, one inside and one beyond it
CoordSamples == {0, 5, 15, 16}
\* object ids around the chest range 0x4c..0x54 and the extremes
IdSamples == {0, 75, 76, 83, 84, 85, 255}
\* payload bytes: zero, a small value, a chest object id and the terminator
ByteSamples == {0, 2, 76, 255}

\* a byte array of the given size, distinct bytes starting from b
ArrayFrom(b, size) == [k \in 1..size |-> (b + 37 * (k - 1)) % 256]

KindTypes(kind) == {Parsers[k].ty : k \in {j \in 1..Len(Parsers) : Parsers[j].kind = kind}}

\* the entries of every variant
Entries ==
    {[tag |-> ty, x |-> x, y |-> y, id |-> id] :
        ty \in KindTypes("object"), x \in CoordSamples, y \in CoordSamples, id \in IdSamples}
    \cup {[tag |-> ty, byte |-> b] : ty \in KindTypes("u8"), b \in ByteSamples}
    \cup {[tag |-> ty] : ty \in KindTypes("simple")}
    \cup UNION {{[tag |-> ty, data |-> ArrayFrom(b, ParserOf(ty).size)] : b \in ByteSamples} :
                    ty \in KindTypes("data")}

\* the bytes of the byte strings: the tags of Object, OpenDoor, DarkRoom and
\* Unknown0b, a byte that is no tag (a chest object id) and the terminator
TableBytes == {0, 1, 9, 11, 76, 255}

ObjectInit ==
    /\ \/ table_entry \in {Some(e) : e \in Entries} /\ bytes = <<>>
       \/ table_entry = None /\ bytes \in SeqsUpTo(TableBytes, MaxTableBytes)
    /\ written = None /\ reparsed = None /\ chest_slot = None
    /\ table = None /\ table_len = None /\ rewritten = None
    /\ IdleState /\ IdleCatalog /\ IdlePointer /\ IdleStore /\ IdleGame

WriteEntry ==
    /\ table_entry # None
    /\ written = None
    /\ written' = Some(TableEntry_write(table_entry[1]))
    /\ UNCHANGED <<table_entry, reparsed, chest_slot, bytes, table, table_len, rewritten,
                   stateVars, catalogVars, pointerVars, storeVars, gameVars>>

ParseEntry ==
    /\ written # None
    /\ reparsed = None
    /\ reparsed' = Some(parse_object_table_entry(written[1]))
    /\ UNCHANGED <<table_entry, written, chest_slot, bytes, table, table_len, rewritten,
                   stateVars, catalogVars, pointerVars, storeVars, gameVars>>

ChestId ==
    /\ table_entry # None
    /\ chest_slot = None
    /\ chest_slot' = Some(chest_id(table_entry[1]))
    /\ UNCHANGED <<table_entry, written, reparsed, bytes, table, table_len, rewritten,
                   stateVars, catalogVars, pointerVars, storeVars, gameVars>>

ParseTable ==
    /\ table_entry = None
    /\ table = None
    /\ table' = Some(parse_object_table(bytes))
    /\ UNCHANGED <<table_entry, written, reparsed, chest_slot, bytes, table_len, rewritten,
                   stateVars, catalogVars, pointerVars, storeVars, gameVars>>

TableLen ==
    /\ table_entry = None
    /\ table_len = None
    /\ table_len' = Some(object_table_len(bytes))
    /\ UNCHANGED <<table_entry, written, reparsed, chest_slot, bytes, table, rewritten,
                   stateVars, catalogVars, pointerVars, storeVars, gameVars>>

WriteTable ==
    /\ table # None
    /\ table[1].ok
    /\ rewritten = None
    /\ rewritten' = Some(write_table(table[1].table))
    /\ UNCHANGED <<table_entry, written, reparsed, chest_slot, bytes, table, table_len,
                   stateVars, catalogVars, pointerVars, storeVars, gameVars>>

ObjectNext ==
    \/ WriteEntry
    \/ ParseEntry
    \/ ChestId
    \/ ParseTable
    \/ TableLen
    \/ WriteTable

SpecObject == ObjectInit /\ [][ObjectNext]_vars

\* the bytes an entry's variant carries after its tag
payload_size(e) ==
    CASE e.tag \in KindTypes("object") -> 2
      [] e.tag \in KindTypes("u8") -> 1
      [] e.tag \in KindTypes("simple") -> 0
      [] e.tag \in {"Unknown0b", "HiddenRoom"} -> 3
      [] e.tag \in {"Npc", "UnknownF4"} -> 5
      [] e.tag = "ShopItem" -> 7
      [] e.tag = "UnknownE1" -> 9

FourBit(e) == "x" \in DOMAIN e => e.x < 16 /\ e.y < 16

\* C11: for every entry of every variant whose ObjectInfo coordinates fit in
\* four bits, parsing the bytes written for it gives the entry back with
\* nothing left over, and the bytes written, which are the bytes consumed,
\* are the tag byte and the variant's payload.
C11_EntryRoundTrip ==
    (reparsed # None /\ FourBit(table_entry[1])) =>
        /\ reparsed[1] = [ok |-> TRUE, rest |-> <<>>, entry |-> table_entry[1]]
        /\ Len(written[1]) = 1 + payload_size(table_entry[1])
        /\ Len(written[1]) - Len(reparsed[1].rest) = 1 + payload_size(table_entry[1])

\* C11 witness: a Burnable entry at (5, 15) was written as 0x0c 0xf5 0x4c and
\* parsed back to itself.
C11_Witness ==
    /\ table_entry = Some([tag |-> "Burnable", x |-> 5, y |-> 15, id |-> 76])
    /\ written = Some(<<12, 245, 76>>)
    /\ reparsed # None
    /\ reparsed[1].ok
    /\ reparsed[1].entry = table_entry[1]

\* C12: for every byte string that parse_object_table accepts, writing the
\* parsed entries back in order, with nothing appended, gives the byte
\* string back.
C12_TableRoundTrip ==
    rewritten # None => rewritten[1] = bytes

\* C12 witness: 0x00 0xff 0x4c 0x09 parsed as an Object at (15, 15) with id
\* 0x4c followed by DarkRoom, and was written back unchanged.
C12_Witness ==
    /\ bytes = <<0, 255, 76, 9>>
    /\ table = Some([ok |-> TRUE, table |-> <<Object(15, 15, 76), DarkRoom>>])
    /\ rewritten = Some(bytes)

\* C13: object_table_len succeeds exactly when the scan of whole entries
\* stops at the end of the input or at a 0xff byte, and then returns the
\* number of bytes of the entries scanned; parse_object_table succeeds
\* exactly when the scan stops at the end of the input.
C13_LenStopsAtTerminator ==
    LET m == many0(bytes)
    IN  /\ table_len # None =>
            /\ table_len[1].ok <=> (m.rest = <<>> \/ m.rest[1] = 255)
            /\ table_len[1].ok =>
                /\ table_len[1].len = Len(bytes) - Len(m.rest)
                /\ SubSeq(bytes, 1, table_len[1].len) = write_table(m.table)
        /\ table # None => (table[1].ok <=> m.rest = <<>>)

\* C13 witness: for DarkRoom followed by a lone 0xff, object_table_len
\* returned 1 and parse_object_table failed.
C13_Witness ==
    /\ bytes = <<9, 255>>
    /\ table_len = Some([ok |-> TRUE, len |-> 1])
    /\ table # None
    /\ ~table[1].ok

\* C14: chest_id returns Some(id - 0x4c) exactly for the Object entries
\* whose id is in 0x4c..0x53 and None for every other entry, so that every
\* index it returns is a slot of the 8-entry chest table.
C14_ChestIdInTable ==
    chest_slot # None =>
        LET e == table_entry[1]
            in_range == e.tag = "Object" /\ ChestObjectBase <= e.id
                            /\ e.id < ChestObjectBase + ChestTableLen
        IN  /\ in_range => chest_slot[1] = Some(e.id - ChestObjectBase)
            /\ ~in_range => chest_slot[1] = None
            /\ IsSome(chest_slot[1]) => Unwrap(chest_slot[1]) < ChestTableLen

----------------------------------------------------------------------------
(* Neutopia::new (neutopia/src/lib.rs): the areas are imported from the    *)
(* parsed image in index order; the conditionals spliced out of the rooms  *)
(* are collected in one map keyed by chest value.                          *)

\* the last area Neutopia::new imports and Neutopia::write relocates
LastArea == 15
\* the first area Neutopia::write relocates
FirstWrittenArea == 4

\* Vec::remove(i + 1) twice: the entries at 0-based i + 1 and i + 2 go
remove_two(objects, i) ==
    SubSeq(objects, 1, i + 1) \o SubSeq(objects, i + 4, Len(objects))

\* the scan for conditionals stopping at the first one found
RECURSIVE scan_conditionals_first(_, _, _, _)
scan_conditionals_first(objects, chest_table, conds, i) ==
    IF ~(i + 2 < Len(objects))
    THEN [ok |-> TRUE, objects |-> objects, conditionals |-> conds]
    ELSE LET id == chest_id(objects[i + 1])
         IN  IF ~IsSome(id)
             THEN scan_conditionals_first(objects, chest_table, conds, i + 1)
             ELSE IF Unwrap(id) + 1 > Len(chest_table)
             THEN [ok |-> FALSE, err |-> "Panic"]
             ELSE IF is_conditional(objects[i + 2])
             THEN [ok |-> TRUE, objects |-> remove_two(objects, i),
                   conditionals |-> insert(conds, chest_table[Unwrap(id) + 1],
                                           <<objects[i + 2], objects[i + 3]>>)]
             ELSE scan_conditionals_first(objects, chest_table, conds, i + 1)

\* import_area's while loop over one room's entries from 0-based i on: the
\* room's entries and the map after it, or the panic of an index outside
\* the chest table
RECURSIVE scan_conditionals(_, _, _, _)
scan_conditionals(objects, chest_table, conds, i) ==
    IF ~(i + 2 < Len(objects))
    THEN [ok |-> TRUE, objects |-> objects, conditionals |-> conds]
    ELSE LET id == chest_id(objects[i + 1])
         IN  IF ~IsSome(id)
             THEN scan_conditionals(objects, chest_table, conds, i + 1)
             ELSE IF Unwrap(id) + 1 > Len(chest_table)
             THEN [ok |-> FALSE, err |-> "Panic"]
             ELSE IF is_conditional(objects[i + 2])
             THEN scan_conditionals(remove_two(objects, i), chest_table,
                                    insert(conds, chest_table[Unwrap(id) + 1],
                                           <<objects[i + 2], objects[i + 3]>>),
                                    i + 1)
             ELSE scan_conditionals(objects, chest_table, conds, i + 1)

\* rooms.push(Room { .. }) in front of the rooms imported after it
push_room(room, objects, rest) ==
    IF ~rest.ok THEN rest
    ELSE [ok |-> TRUE,
          rooms |-> <<[warps |-> room.warp_table, enemies |-> room.enemy_table,
                       objects |-> objects]>> \o rest.rooms,
          conditionals |-> rest.conditionals]

\* import_area's loop over the rooms from the r-th on
RECURSIVE import_rooms(_, _, _, _)
RECURSIVE import_scanned(_, _, _, _)
RECURSIVE import_parsed(_, _, _, _, _)
import_rooms(room_info_table, chest_table, conds, r) ==
    IF r > Len(room_info_table)
    THEN [ok |-> TRUE, rooms |-> <<>>, conditionals |-> conds]
    ELSE import_parsed(room_info_table, chest_table, conds, r,
                       parse_object_table(room_info_table[r].object_table))

\* the loop's body once the room's object table t is parsed
import_parsed(room_info_table, chest_table, conds, r, t) ==
    IF ~t.ok THEN [ok |-> FALSE, err |-> "Err"]
    ELSE import_scanned(room_info_table, chest_table, r,
                        scan_conditionals(t.table, chest_table, conds, 0))

\* the loop's body once the room's conditionals are spliced out as sc
import_scanned(room_info_table, chest_table, r, sc) ==
    IF ~sc.ok THEN sc
    ELSE push_room(room_info_table[r], sc.objects,
                   import_rooms(room_info_table, chest_table, sc.conditionals, r + 1))

\* self.areas.push(Area { rooms, chest_table })
push_area(areas, area_idx, chest_table, rs) ==
    IF ~rs.ok THEN rs
    ELSE [ok |-> TRUE,
          areas |-> insert(areas, area_idx,
                           [rooms |-> rs.rooms, chest_table |-> chest_table]),
          conditionals |-> rs.conditionals]

area_chest_table(r, area_idx) == r.chest_tables[r.chest_table_pointers[area_idx]]

\* import_area on the model nt built so far
import_area(r, nt, area_idx) ==
    push_area(nt.areas, area_idx, area_chest_table(r, area_idx),
              import_rooms(r.room_info_tables[area_idx], area_chest_table(r, area_idx),
                           nt.conditionals, 1))

\* Neutopia::new's loop over the areas from area_idx on; an error ends it
RECURSIVE import_areas(_, _, _)
import_areas(r, nt, area_idx) ==
    IF ~nt.ok \/ area_idx > LastArea THEN nt
    ELSE import_areas(r, import_area(r, nt, area_idx), area_idx + 1)

Neutopia_new(r) ==
    import_areas(r, [ok |-> TRUE, areas |-> EmptyMap, conditionals |-> EmptyMap], 0)

----------------------------------------------------------------------------
(* Input images.  An image is given as NeutopiaRom::new parsed it: the raw *)
(* tables of every room, the chest tables by pointer, and the positions    *)
(* of the top-level tables.                                                *)

\* chest values with every field set
ChestA == [item_id |-> 3, arg |-> 1, text |-> 7, unknown |-> 9]
ChestB == [item_id |-> 4, arg |-> 2, text |-> 8, unknown |-> 1]
ChestP == [item_id |-> 7, arg |-> 0, text |-> 0, unknown |-> 0]
\* a medallion
ChestM == [item_id |-> 18, arg |-> 0, text |-> 5, unknown |-> 0]

\* room entries: the objects of chest slots 0 and 1, an Object whose id is
\* one past the last slot's, a conditional, and an Object and a non-Object
\* that hold no chest
C0 == Object(1, 2, ChestObjectBase)
C1 == Object(3, 4, ChestObjectBase + 1)
C8 == Object(5, 6, ChestObjectBase + ChestTableLen)
\* the object of chest slot 2, which holds the medallion
C2 == Object(7, 8, ChestObjectBase + 2)
U0b == [tag |-> "Unknown0b", data |-> <<70, 42, 4>>]
Follower == Object(9, 9, 32)

\* positions of the top-level tables, of the chest tables and of the room
\* data of areas 0 and 4: the tables lie below the relocated chest tables,
\* the room data of area 4 on in the next bank
Layouts ==
    {[AREA_TABLE |-> 262400, CHEST_TABLE |-> 262656, old_chests |-> 263168,
      area0 |-> 266240, area4 |-> 328014],
     [AREA_TABLE |-> 326912, CHEST_TABLE |-> 327040, old_chests |-> 326144,
      area0 |-> 266240, area4 |-> 327680]}

\* a room as NeutopiaRom::new parses it: where its record lies and its tables
RawRoom(objects, base_addr) ==
    [base_addr |-> base_addr, warp_table |-> <<1, 2>>, enemy_table |-> <<3>>,
     object_table |-> write_table(objects)]

\* a room's record in the image: the pointers to its three tables, the warp
\* table, the enemy table and the object table, the last two ended by 0xff
room_record(room) ==
    LET warp_table_pointer == room.base_addr + 3 * 3
        enemy_table_pointer == warp_table_pointer + Len(room.warp_table)
        object_table_pointer == enemy_table_pointer + Len(room.enemy_table) + 1
    IN  rom_offset_to_pointer(warp_table_pointer)
            \o rom_offset_to_pointer(enemy_table_pointer)
            \o rom_offset_to_pointer(object_table_pointer)
            \o room.warp_table \o room.enemy_table \o <<255>>
            \o room.object_table \o <<255>>

\* the rooms holding the given entries, their records one after the other
\* from pos on
RECURSIVE lay_rooms(_, _, _)
lay_rooms(rooms, r, pos) ==
    IF r > Len(rooms) THEN <<>>
    ELSE <<RawRoom(rooms[r], pos)>>
         \o lay_rooms(rooms, r + 1, pos + Len(room_record(RawRoom(rooms[r], pos))))

\* the areas from a to last_area one after the other from pos on, each its table
\* of room pointers followed by its rooms' records
RECURSIVE lay_areas(_, _, _, _)
lay_areas(rooms, a, last_area, pos) ==
    IF a > last_area THEN <<>>
    ELSE LET laid == lay_rooms(rooms[a], 1, pos + 3 * Len(rooms[a]))
             end == laid[Len(laid)].base_addr + Len(room_record(laid[Len(laid)]))
         IN  <<[pointer |-> pos, rooms |-> laid]>> \o lay_areas(rooms, a + 1, last_area, end)

\* The image with the given chest table and room entries for every area:
\* the areas below 4 lie packed from layout.area0 on, the others from
\* layout.area4 on, the chest table of area a at layout.old_chests + 32 * a.
Image(layout, tables, rooms) ==
    LET laid == lay_areas(rooms, 0, FirstWrittenArea - 1, layout.area0)
                    \o lay_areas(rooms, FirstWrittenArea, LastArea, layout.area4)
    IN  [rommap |-> layout,
         area_pointers |-> [a \in 0..LastArea |-> laid[a + 1].pointer],
         chest_table_pointers |-> [a \in 0..LastArea |-> layout.old_chests + 32 * a],
         chest_tables |->
            [ptr \in {layout.old_chests + 32 * a : a \in 0..LastArea} |->
                tables[(ptr - layout.old_chests) \div 32]],
         room_info_tables |-> [a \in 0..LastArea |-> laid[a + 1].rooms]]

\* The image in which area fa holds the given entries in its rooms 0 and 1
\* area sa holds the given entries in its room 0, both areas hold the chests
\* A and B in slots 0 and 1 and the medallion in slot 2, and every other room
\* is empty.
MkImage(fa, room0, room1, sa, sroom0, layout) ==
    Image(layout,
          [a \in 0..LastArea |->
              [i \in 1..ChestTableLen |->
                  IF a \in {fa, sa}
                  THEN (IF i = 1 THEN ChestA ELSE IF i = 2 THEN ChestB
                        ELSE IF i = 3 THEN ChestM ELSE ChestP)
                  ELSE ChestP]],
          [a \in 0..LastArea |->
              [r \in 1..NumRooms |->
                  IF a = fa /\ r = 1 THEN room0
                  ELSE IF a = fa /\ r = 2 THEN room1
                  ELSE IF a = sa /\ r = 1 THEN sroom0
                  ELSE <<>>]])

----------------------------------------------------------------------------
(* update_chests called on an imported image. *)

\* most entries in the room the refs point into
MaxRoomObjects == 3
\* most refs handed to one update_chests call
MaxRefs == 2

UpdateArea == FirstWrittenArea + 1

UpdateImages ==
    {MkImage(UpdateArea, room0, <<C1>>, UpdateArea + 1, <<>>,
             CHOOSE l \in Layouts : l.area4 = 328014) :
        room0 \in SeqsUpTo({C0, C1, C8, Follower}, MaxRoomObjects)}

\* the refs callers pass: both rooms, an index past the room's chests
CallRefs ==
    {ChestRef(info, UpdateArea, room, index) :
        info \in {ChestA, ChestB}, room \in {0, 1}, index \in 0..2}

UpdateInit ==
    /\ rom \in {Some(r) : r \in UpdateImages}
    /\ neutopia = None /\ update = None /\ image = None
    /\ IdleState /\ IdleCatalog /\ IdlePointer /\ IdleObject /\ IdleStore

New ==
    /\ rom # None
    /\ neutopia = None
    /\ neutopia' = Some(Neutopia_new(rom[1]))
    /\ UNCHANGED <<rom, update, image, stateVars, catalogVars, pointerVars,
                   objectVars, storeVars>>

UpdateChests ==
    \E chests \in SeqsUpTo(CallRefs, MaxRefs) :
        /\ neutopia # None
        /\ neutopia[1].ok
        /\ update = None
        /\ image = None
        /\ LET r == update_chests(neutopia[1].areas, chests, 1)
           IN  /\ neutopia' = Some([neutopia[1] EXCEPT !.areas = r.areas])
               /\ update' = Some([chests |-> chests, before |-> neutopia[1].areas,
                                  ok |-> r.ok])
        /\ UNCHANGED <<rom, image, stateVars, catalogVars, pointerVars,
                       objectVars, storeVars>>

UpdateNext ==
    \/ New
    \/ UpdateChests

SpecUpdate == UpdateInit /\ [][UpdateNext]_vars

\* the chest-table slots of a room's Objects whose id is in 0x4c..0x53, in
\* the order of the objects
RECURSIVE chest_slots(_)
chest_slots(objects) ==
    IF objects = <<>> THEN <<>>
    ELSE LET e == Head(objects)
         IN  (IF e.tag = "Object" /\ ChestObjectBase <= e.id
                    /\ e.id < ChestObjectBase + ChestTableLen
              THEN <<e.id - ChestObjectBase>> ELSE <<>>)
             \o chest_slots(Tail(objects))

\* the refs from the k-th on applied in order, each to the slot of the
\* index-th chest-bearing Object of its room
RECURSIVE refs_applied(_, _, _)
refs_applied(areas, chests, k) ==
    IF k > Len(chests) THEN [ok |-> TRUE, areas |-> areas]
    ELSE LET chest == chests[k]
             slots == chest_slots(areas[chest.area].rooms[chest.room + 1].objects)
         IN  IF Len(slots) < chest.index + 1 THEN [ok |-> FALSE, areas |-> areas]
             ELSE refs_applied(
                    [areas EXCEPT ![chest.area].chest_table[slots[chest.index + 1] + 1] =
                                        chest.info],
                    chests, k + 1)

\* C15: update_chests applies the refs in order, each overwriting the slot
\* of the index-th chest-bearing Object of its room; it fails exactly when a
\* ref's room has fewer than index + 1 such Objects; it changes no room and
\* no slot that no ref names.
C15_UpdateChestsBySlot ==
    update # None =>
        LET u == update[1]
            expected == refs_applied(u.before, u.chests, 1)
            after == neutopia[1].areas
        IN  /\ u.ok = expected.ok
            /\ u.ok => after = expected.areas
            /\ \A a \in DOMAIN after : after[a].rooms = u.before[a].rooms

----------------------------------------------------------------------------
(* IntervalStore (neutopia/src/interval.rs). *)

Interval(start, end) == [start |-> start, end |-> end]

\* a test for overlap that leaves adjacent intervals apart
can_merge_overlapping(self, other) ==
    \/ self.start <= other.start /\ other.start < self.end
    \/ other.start <= self.start /\ self.start < other.end

can_merge(self, other) ==
    \/ self.start <= other.start /\ other.start <= self.end
    \/ other.start <= self.start /\ self.start <= other.end

Min(a, b) == IF a <= b THEN a ELSE b
Max(a, b) == IF a >= b THEN a ELSE b

\* merge: the merged interval, or the panic of its assert!
merge(self, other) ==
    IF ~can_merge(self, other) THEN [ok |-> FALSE]
    ELSE [ok |-> TRUE,
          interval |-> Interval(Min(self.start, other.start), Max(self.end, other.end))]

\* Vec::remove at 0-based i
remove_at(v, i) == SubSeq(v, 1, i) \o SubSeq(v, i + 2, Len(v))

\* the while loop of add from 0-based i on, and the push after it
RECURSIVE add_loop(_, _, _, _)
add_loop(ivs, new_interval, first_match, i) ==
    IF i = Len(ivs)
    THEN [ok |-> TRUE,
          intervals |-> IF first_match = None THEN Append(ivs, new_interval) ELSE ivs]
    ELSE LET interval == ivs[i + 1]
         IN  IF first_match = None /\ can_merge(interval, new_interval)
             THEN LET m == merge(interval, new_interval)
                  IN  IF ~m.ok THEN [ok |-> FALSE, intervals |-> ivs]
                      ELSE add_loop([ivs EXCEPT ![i + 1] = m.interval], m.interval,
                                    Some(i), i + 1)
             ELSE IF first_match # None /\ can_merge(interval, new_interval)
             THEN LET match_idx == Unwrap(first_match)
                      m == merge(ivs[match_idx + 1], interval)
                  IN  IF ~m.ok THEN [ok |-> FALSE, intervals |-> ivs]
                      ELSE add_loop(remove_at([ivs EXCEPT ![match_idx + 1] = m.interval], i),
                                    new_interval, first_match, i)
             ELSE add_loop(ivs, new_interval, first_match, i + 1)

add(ivs, start, end) == add_loop(ivs, Interval(start, end), None, 0)

\* the derived Ord of Interval: by start, then by end
interval_less(a, b) == a.start < b.start \/ (a.start = b.start /\ a.end < b.end)

\* sort
RECURSIVE sorted_intervals(_)
sorted_intervals(S) ==
    IF S = <<>> THEN <<>>
    ELSE LET k == CHOOSE j \in 1..Len(S) :
                    \A l \in 1..Len(S) : ~interval_less(S[l], S[j])
         IN  <<S[k]>> \o sorted_intervals(remove_at(S, k - 1))

get_intervals(ivs) == sorted_intervals(ivs)

\* largest endpoint handed to add
MaxPoint == 6
\* most distinct ranges handed to add
MaxAdds == 3

StoreInit ==
    /\ intervals = <<>>
    /\ added = [ranges |-> {}, panicked |-> FALSE]
    /\ listed = None
    /\ IdleState /\ IdleCatalog /\ IdlePointer /\ IdleObject /\ IdleGame

Add ==
    \E start \in 0..MaxPoint, end \in 0..MaxPoint :
        /\ start <= end
        /\ ~added.panicked
        /\ Cardinality(added.ranges \cup {Interval(start, end)}) <= MaxAdds
        /\ LET r == add(intervals, start, end)
           IN  /\ intervals' = r.intervals
               /\ added' = [ranges |-> added.ranges \cup {Interval(start, end)},
                            panicked |-> ~r.ok]
        /\ listed' = None
        /\ UNCHANGED <<stateVars, catalogVars, pointerVars, objectVars, gameVars>>

GetIntervals ==
    /\ ~added.panicked
    /\ listed = None
    /\ listed' = Some(get_intervals(intervals))
    /\ UNCHANGED <<intervals, added, stateVars, catalogVars, pointerVars, objectVars, gameVars>>

StoreNext ==
    \/ Add
    \/ GetIntervals

SpecStore == StoreInit /\ [][StoreNext]_vars

\* two half-open intervals overlap or are adjacent
Touching(a, b) == a.start <= b.end /\ b.start <= a.end

\* the points of the half-open ranges of a set
PointsOf(S) == {p \in 0..MaxPoint : \E r \in S : r.start <= p /\ p < r.end}

\* the step from p to p + 1 lies inside one of the ranges
Linked(S, p) == \E r \in S : r.start <= p /\ p + 1 <= r.end

\* the maximal intervals obtained by merging the ranges of S that overlap
\* or are adjacent
Maximal(S) ==
    {iv \in {Interval(s, e) : s \in 0..MaxPoint, e \in 0..MaxPoint} :
        /\ iv.start <= iv.end
        /\ \E r \in S : r.start <= iv.start /\ iv.start <= r.end
        /\ \E r \in S : r.start <= iv.end /\ iv.end <= r.end
        /\ \A p \in iv.start..(iv.end - 1) : Linked(S, p)
        /\ ~Linked(S, iv.start - 1)
        /\ ~Linked(S, iv.end)}

\* C17: after any sequence of adds with start <= end no merge has panicked,
\* no two stored intervals overlap or are adjacent, the stored intervals
\* cover exactly the points of the ranges added, and get_intervals returns,
\* in ascending order, the maximal merged intervals of the set of ranges
\* added, whatever the order they were added in.
C17_StoreHoldsMaximalIntervals ==
    /\ ~added.panicked
    /\ \A i, j \in 1..Len(intervals) : i # j => ~Touching(intervals[i], intervals[j])
    /\ PointsOf(Range(intervals)) = PointsOf(added.ranges)
    /\ Range(intervals) = Maximal(added.ranges)
    /\ listed # None =>
        /\ Range(listed[1]) = Maximal(added.ranges)
        /\ Len(listed[1]) = Cardinality(Maximal(added.ranges))
        /\ \A i \in 1..(Len(listed[1]) - 1) : interval_less(listed[1][i], listed[1][i + 1])

\* C17 witness: [0,2), [4,6) and [1,5) were added and get_intervals
\* returned the single interval [0,6).
C17_Witness ==
    /\ added.ranges = {Interval(0, 2), Interval(4, 6), Interval(1, 5)}
    /\ listed = Some(<<Interval(0, 6)>>)

----------------------------------------------------------------------------
(* Neutopia::write (neutopia/src/lib.rs).  The output is the input image   *)
(* with a sequence of writes laid over it, each a record of the offset     *)
(* written at and the bytes written; `what` names the table a write holds. *)

\* Chest::write with the first two fields exchanged
Chest_write_arg_first(chest) == <<chest.arg, chest.item_id, chest.text, chest.unknown>>

Chest_write(chest) == <<chest.item_id, chest.arg, chest.text, chest.unknown>>

\* where write puts the chest table of an area
RelocatedChests == 327168
ChestTableBytes == 32

RECURSIVE write_chests(_)
write_chests(chest_table) ==
    IF chest_table = <<>> THEN <<>>
    ELSE Chest_write(Head(chest_table)) \o write_chests(Tail(chest_table))

WriteRec(offset, bs, kind, area, room) ==
    [offset |-> offset, bytes |-> bs, what |-> [kind |-> kind, area |-> area, room |-> room]]

\* a conditional's entries with the Object entries moved to loc
patched(cond, l) ==
    [j \in 1..Len(cond) |->
        IF cond[j].tag = "Object" THEN [cond[j] EXCEPT !.x = l[1], !.y = l[2]]
        ELSE cond[j]]

\* write_area's loop adding a conditional back to a room's entries, from
\* 0-based i on; the loop ends at the first insertion
RECURSIVE add_conditionals(_, _, _, _)
add_conditionals(objects, chest_table, conds, i) ==
    IF i >= Len(objects) THEN [ok |-> TRUE, objects |-> objects]
    ELSE LET id == chest_id(objects[i + 1])
             l == entry_loc(objects[i + 1])
         IN  IF ~IsSome(id) THEN add_conditionals(objects, chest_table, conds, i + 1)
             ELSE IF Unwrap(id) + 1 > Len(chest_table) THEN [ok |-> FALSE, err |-> "Panic"]
             ELSE IF ~IsSome(l) THEN add_conditionals(objects, chest_table, conds, i + 1)
             ELSE IF chest_table[Unwrap(id) + 1] \in DOMAIN conds
             THEN [ok |-> TRUE,
                   objects |-> SubSeq(objects, 1, i + 1)
                               \o patched(conds[chest_table[Unwrap(id) + 1]], Unwrap(l))
                               \o SubSeq(objects, i + 2, Len(objects))]
             ELSE add_conditionals(objects, chest_table, conds, i + 1)

\* one round of write_area's loop over the rooms from the seek over the
\* three table pointers on: rs is the writer before the round (its writes,
\* the room pointers collected and its position); the tables are written,
\* then the pointers back at the room's offset
write_room_tables(rs, room, area_idx, r, object_bytes) ==
    LET room_offset == rs.pos
        warp_table_ptr == room_offset + 3 * 3
        enemy_table_ptr == warp_table_ptr + Len(room.warps)
        object_table_ptr == enemy_table_ptr + Len(room.enemies) + 1
        room_end_pos == object_table_ptr + Len(object_bytes) + 1
    IN  [ok |-> TRUE,
         writes |-> rs.writes
             \o <<WriteRec(warp_table_ptr,
                           room.warps \o room.enemies \o <<255>>
                               \o object_bytes \o <<255>>,
                           "room_tables", area_idx, r - 1),
                  WriteRec(room_offset,
                           rom_offset_to_pointer(warp_table_ptr)
                               \o rom_offset_to_pointer(enemy_table_ptr)
                               \o rom_offset_to_pointer(object_table_ptr),
                           "room", area_idx, r - 1)>>,
         room_ptrs |-> rs.room_ptrs \o rom_offset_to_pointer(room_offset),
         pos |-> room_end_pos]

\* the round once the conditionals are added back as object_table
write_room(rs, room, area_idx, r, object_table) ==
    IF ~object_table.ok THEN object_table
    ELSE write_room_tables(rs, room, area_idx, r, write_table(object_table.objects))

\* write_area's loop over the rooms from the r-th on; a panic ends it
RECURSIVE write_rooms(_, _, _, _, _)
write_rooms(area, conds, area_idx, r, rs) ==
    IF ~rs.ok \/ r > Len(area.rooms) THEN rs
    ELSE write_rooms(area, conds, area_idx, r + 1,
                     write_room(rs, area.rooms[r], area_idx, r,
                                add_conditionals(area.rooms[r].objects, area.chest_table,
                                                 conds, 0)))

\* write_area_pointers leaving one byte free after the area
write_area_pointers_gap(rommap, area_idx, cur_offset, rs) ==
    IF ~rs.ok THEN rs
    ELSE [ok |-> TRUE,
          writes |-> rs.writes
              \o <<WriteRec(cur_offset, rs.room_ptrs, "room_ptrs", area_idx, -1),
                   WriteRec(rommap.AREA_TABLE + area_idx * 3,
                            rom_offset_to_pointer(cur_offset), "area_ptr", area_idx, -1)>>,
          next_offset |-> rs.pos + 1]

\* write_area after its room loop: the room pointers and the area pointer
write_area_pointers(rommap, area_idx, cur_offset, rs) ==
    IF ~rs.ok THEN rs
    ELSE [ok |-> TRUE,
          writes |-> rs.writes
              \o <<WriteRec(cur_offset, rs.room_ptrs, "room_ptrs", area_idx, -1),
                   WriteRec(rommap.AREA_TABLE + area_idx * 3,
                            rom_offset_to_pointer(cur_offset), "area_ptr", area_idx, -1)>>,
          next_offset |-> rs.pos]

\* write_area with the writer at cur_offset: its writes and the offset
\* after the area
write_area(nt, rommap, area_idx, cur_offset) ==
    write_area_pointers(rommap, area_idx, cur_offset,
                        write_rooms(nt.areas[area_idx], nt.conditionals, area_idx, 1,
                                    [ok |-> TRUE, writes |-> <<>>, room_ptrs |-> <<>>,
                                     pos |-> cur_offset + Len(nt.areas[area_idx].rooms) * 3]))

\* write's first loop with the tables 0x10 apart, half a table's length
RECURSIVE patch_chest_tables_narrow(_, _, _)
patch_chest_tables_narrow(nt, rommap, area_idx) ==
    IF area_idx > LastArea THEN <<>>
    ELSE LET offset == RelocatedChests + (ChestTableBytes \div 2) * area_idx
         IN  <<WriteRec(offset, write_chests(nt.areas[area_idx].chest_table),
                        "chests", area_idx, -1),
               WriteRec(rommap.CHEST_TABLE + 3 * area_idx, rom_offset_to_pointer(offset),
                        "chest_ptr", area_idx, -1)>>
             \o patch_chest_tables_narrow(nt, rommap, area_idx + 1)

\* write's first loop from area_idx on: the chest tables and their pointers
RECURSIVE patch_chest_tables(_, _, _)
patch_chest_tables(nt, rommap, area_idx) ==
    IF area_idx > LastArea THEN <<>>
    ELSE LET offset == RelocatedChests + ChestTableBytes * area_idx
         IN  <<WriteRec(offset, write_chests(nt.areas[area_idx].chest_table),
                        "chests", area_idx, -1),
               WriteRec(rommap.CHEST_TABLE + 3 * area_idx, rom_offset_to_pointer(offset),
                        "chest_ptr", area_idx, -1)>>
             \o patch_chest_tables(nt, rommap, area_idx + 1)

\* one round of write's second loop: w is the writer before it (its writes,
\* cur_offset and offset_c), a is write_area's result
area_written(w, area_idx, a) ==
    IF ~a.ok THEN a
    ELSE [ok |-> TRUE, writes |-> w.writes \o a.writes, cur_offset |-> a.next_offset,
          offset_c |-> IF area_idx = 12 THEN Some(w.cur_offset) ELSE w.offset_c]

\* write's second loop from area_idx on; an error ends it
RECURSIVE write_areas(_, _, _, _)
write_areas(nt, rommap, area_idx, w) ==
    IF ~w.ok \/ area_idx > LastArea THEN w
    ELSE write_areas(nt, rommap, area_idx + 1,
                     area_written(w, area_idx,
                                  write_area(nt, rommap, area_idx, w.cur_offset)))

\* the fix-up of area 0x10's pointer after the second loop
fixup_area_10(rommap, w) ==
    IF ~w.ok THEN w
    ELSE [ok |-> TRUE,
          writes |-> w.writes
              \o (IF IsSome(w.offset_c)
                  THEN <<WriteRec(rommap.AREA_TABLE + 16 * 3,
                                  rom_offset_to_pointer(Unwrap(w.offset_c)),
                                  "area_ptr", 16, -1)>>
                  ELSE <<>>)]

\* Neutopia::write: the writes made over rom_data, in order
write(nt, r) ==
    fixup_area_10(r.rommap,
                  write_areas(nt, r.rommap, FirstWrittenArea,
                              [ok |-> TRUE,
                               writes |-> patch_chest_tables(nt, r.rommap, FirstWrittenArea),
                               cur_offset |-> r.area_pointers[FirstWrittenArea],
                               offset_c |-> None]))

\* a byte of the input image: the area-pointer and chest-pointer tables hold
\* the encoded positions of the areas and of the chest tables, a chest table
\* its chests, an area its room pointers and then its rooms' records; the
\* bytes of no table are 0
rom_data(r, o) ==
    LET m == r.rommap
        tables == {p \in DOMAIN r.chest_tables :
                      p <= o /\ o < p + 4 * Len(r.chest_tables[p])}
        areas == {a \in DOMAIN r.area_pointers :
                     /\ r.area_pointers[a] <= o
                     /\ o < r.area_pointers[a] + 3 * Len(r.room_info_tables[a])}
        rooms == {x \in UNION {{<<a, k>> : k \in 1..Len(r.room_info_tables[a])} :
                                    a \in DOMAIN r.room_info_tables} :
                     /\ r.room_info_tables[x[1]][x[2]].base_addr <= o
                     /\ o < r.room_info_tables[x[1]][x[2]].base_addr + 3 * 3
                               + Len(r.room_info_tables[x[1]][x[2]].warp_table)
                               + Len(r.room_info_tables[x[1]][x[2]].enemy_table) + 1
                               + Len(r.room_info_tables[x[1]][x[2]].object_table) + 1}
    IN  IF m.AREA_TABLE <= o /\ o < m.AREA_TABLE + 3 * (LastArea + 1)
        THEN rom_offset_to_pointer(
                r.area_pointers[(o - m.AREA_TABLE) \div 3])[((o - m.AREA_TABLE) % 3) + 1]
        ELSE IF m.CHEST_TABLE <= o /\ o < m.CHEST_TABLE + 3 * (LastArea + 1)
        THEN rom_offset_to_pointer(
                r.chest_table_pointers[(o - m.CHEST_TABLE) \div 3])[((o - m.CHEST_TABLE) % 3) + 1]
        ELSE IF tables # {}
        THEN LET p == CHOOSE p \in tables : TRUE
             IN  Chest_write(r.chest_tables[p][((o - p) \div 4) + 1])[((o - p) % 4) + 1]
        ELSE IF areas # {}
        THEN LET a == CHOOSE a \in areas : TRUE
                 k == o - r.area_pointers[a]
             IN  rom_offset_to_pointer(
                    r.room_info_tables[a][(k \div 3) + 1].base_addr)[(k % 3) + 1]
        ELSE IF rooms # {}
        THEN LET x == CHOOSE x \in rooms : TRUE
                 room == r.room_info_tables[x[1]][x[2]]
             IN  room_record(room)[o - room.base_addr + 1]
        ELSE 0

\* a byte of the output: of the last write that covers it, else of the input
byte_at(r, writes, o) ==
    LET hits == {k \in 1..Len(writes) :
                    writes[k].offset <= o /\ o < writes[k].offset + Len(writes[k].bytes)}
    IN  IF hits = {} THEN rom_data(r, o)
        ELSE LET k == CHOOSE h \in hits : \A g \in hits : g <= h
             IN  writes[k].bytes[o - writes[k].offset + 1]

\* len bytes of the output from offset o on
read(r, writes, o, len) ==
    LET hits == {k \in 1..Len(writes) :
                    writes[k].offset < o + len /\ o < writes[k].offset + Len(writes[k].bytes)}
    IN  IF hits = {} THEN [j \in 1..len |-> rom_data(r, o + j - 1)]
        ELSE LET k == CHOOSE h \in hits : \A g \in hits : g <= h
                 w == writes[k]
             IN  IF w.offset <= o /\ o + len <= w.offset + Len(w.bytes)
                 THEN SubSeq(w.bytes, o - w.offset + 1, o - w.offset + len)
                 ELSE [j \in 1..len |-> byte_at(r, writes, o + j - 1)]

----------------------------------------------------------------------------
(* Import, shuffle and write as a state machine. *)

\* most groups of entries in the room under test
MaxGroups == 2

\* what a room is made of: chest objects alone, chest objects followed by
\* a conditional and its follower, and entries that hold no chest
GameGroups ==
    {<<C0>>, <<C1>>, <<C0, U0b, Follower>>, <<C1, U0b, DarkRoom>>, <<DarkRoom>>, <<U0b>>}

RECURSIVE ConcatsUpTo(_, _)
ConcatsUpTo(G, k) ==
    IF k = 0 THEN {<<>>}
    ELSE LET shorter == ConcatsUpTo(G, k - 1)
         IN  shorter \cup {q \o g : q \in shorter, g \in G}

\* the areas the room under test is put in: the last one write leaves
\* alone, and the first and last ones it relocates
FocusAreas == {FirstWrittenArea - 1, FirstWrittenArea, LastArea}

\* the images: rooms of several groups beside a plain room; rooms of at most
\* one group beside a room with or without a conditional, in both layouts;
\* and the same with the chests of the second area outside the crypts
GameImages ==
    {MkImage(fa, room0, <<C1>>, UpdateArea, <<C0, C1, C2>>,
             CHOOSE l \in Layouts : l.area4 = 328014) :
        fa \in FocusAreas, room0 \in ConcatsUpTo(GameGroups, MaxGroups)}
    \cup
    {MkImage(fa, room0, room1, UpdateArea, <<C0, C1, C2>>, layout) :
        fa \in FocusAreas, room0 \in ConcatsUpTo(GameGroups, 1),
        room1 \in {<<C1>>, <<C1, U0b, DarkRoom>>}, layout \in Layouts}
    \cup
    {MkImage(fa, room0, room1, LastArea - 2, <<C0, C1, C2>>, layout) :
        fa \in FocusAreas \ {FirstWrittenArea}, room0 \in ConcatsUpTo(GameGroups, 1),
        room1 \in {<<C1>>, <<C1, U0b, DarkRoom>>, <<C8>>}, layout \in Layouts}

GameInit ==
    /\ rom \in {Some(r) : r \in GameImages}
    /\ neutopia = None /\ update = None /\ image = None
    /\ IdleState /\ IdleCatalog /\ IdlePointer /\ IdleObject /\ IdleStore

\* Vec::shuffle: every order of the elements
shuffles(q) ==
    IF q = <<>> THEN {<<>>}
    ELSE {[i \in 1..Len(q) |-> q[p[i]]] : p \in Permutations(1..Len(q))}

\* crypt_rando's loop from area_idx on: the first area whose round has
\* chests to hand to update_chests, or 0xc when the loop runs out
RECURSIVE next_round(_, _)
next_round(areas, area_idx) ==
    IF area_idx > 11 THEN area_idx
    ELSE IF filter_chests(areas, [kind |-> "crypt", area |-> area_idx]).chests # <<>>
    THEN area_idx
    ELSE next_round(areas, area_idx + 1)

\* the round of crypt_rando's loop that writes chests next: the rounds run
\* in ascending order of the area, a round without chests changes nothing.
\* The chests of the area are collected, their values shuffled and written
\* back.  filter_chests panics in the first round when a chest object names
\* a slot outside its area's table.
Shuffle ==
    /\ neutopia # None
    /\ neutopia[1].ok
    /\ update # None => update[1].ok
    /\ image = None
    /\ IF ~filter_chests(neutopia[1].areas, [kind |-> "all"]).ok
       THEN /\ neutopia' = neutopia
            /\ update' = Some([ok |-> FALSE, err |-> "Panic", area |-> FirstWrittenArea,
                               chests |-> <<>>, before |-> neutopia[1].areas])
       ELSE LET area_idx == next_round(neutopia[1].areas,
                                       IF update = None THEN FirstWrittenArea
                                       ELSE update[1].area + 1)
                chests == filter_chests(neutopia[1].areas,
                                        [kind |-> "crypt", area |-> area_idx]).chests
            IN  /\ area_idx <= 11
                /\ \E randomized_chests \in shuffles([i \in 1..Len(chests) |-> chests[i].info]) :
                     LET randomized == [i \in 1..Len(chests) |->
                                           [chests[i] EXCEPT !.info = randomized_chests[i]]]
                         r == update_chests(neutopia[1].areas, randomized, 1)
                     IN  /\ neutopia' = Some([neutopia[1] EXCEPT !.areas = r.areas])
                         /\ update' = Some([ok |-> r.ok, area |-> area_idx,
                                            chests |-> randomized,
                                            before |-> IF update = None THEN neutopia[1].areas
                                                       ELSE update[1].before])
    /\ UNCHANGED <<rom, image, stateVars, catalogVars, pointerVars,
                   objectVars, storeVars>>

\* n.write() once crypt_rando's loop has run out
Write ==
    /\ neutopia # None
    /\ neutopia[1].ok
    /\ update # None => update[1].ok
    /\ image = None
    /\ filter_chests(neutopia[1].areas, [kind |-> "all"]).ok
    /\ next_round(neutopia[1].areas,
                  IF update = None THEN FirstWrittenArea ELSE update[1].area + 1) > 11
    /\ image' = Some(write(neutopia[1], rom[1]))
    /\ UNCHANGED <<rom, neutopia, update, stateVars, catalogVars, pointerVars,
                   objectVars, storeVars>>

GameNext ==
    \/ New
    \/ Shuffle
    \/ Write

SpecGame == GameInit /\ [][GameNext]_vars

\* the values filter_chests reports for an area, in its order
area_infos(areas, area_idx) ==
    LET chests == SelectSeq(filter_chests(areas, [kind |-> "all"]).chests,
                            LAMBDA c : c.area = area_idx)
    IN  [i \in 1..Len(chests) |-> chests[i].info]

is_medallion(info) == 18 <= info.item_id /\ info.item_id < 18 + 8

\* two sequences hold the same values the same number of times
same_multiset(p, q) ==
    \A v \in Range(p) \cup Range(q) :
        Cardinality({i \in 1..Len(p) : p[i] = v}) = Cardinality({i \in 1..Len(q) : q[i] = v})

\* the chest-table slots the chest objects of an area name, in filter_chests's order
RECURSIVE area_slots(_, _)
area_slots(area, r) ==
    IF r > Len(area.rooms) THEN <<>>
    ELSE chest_slots(area.rooms[r].objects) \o area_slots(area, r + 1)

\* the rest of what C23 says: medallion chests keep their content, the
\* chest tables outside the crypts are not changed
medallions_and_other_areas_kept ==
    /\ \A a \in FirstWrittenArea..11 :
        /\ Len(area_infos(neutopia[1].areas, a)) = Len(area_infos(update[1].before, a))
        /\ \A i \in 1..Len(area_infos(update[1].before, a)) :
              is_medallion(area_infos(update[1].before, a)[i]) =>
                  area_infos(neutopia[1].areas, a)[i] = area_infos(update[1].before, a)[i]
    /\ \A a \in DOMAIN neutopia[1].areas \ (FirstWrittenArea..11) :
          neutopia[1].areas[a].chest_table = update[1].before[a].chest_table

\* C23 as stated: after the shuffle of a crypt, every crypt reports the same
\* non-medallion chest values as before, each as often as before; medallion
\* chests keep their content; the chest tables of the areas outside 4..=0xb
\* are not changed.
C23_ShufflePermutesWithinCrypt ==
    (update # None /\ update[1].ok) =>
        /\ \A a \in FirstWrittenArea..11 :
              same_multiset(
                  SelectSeq(area_infos(update[1].before, a), LAMBDA v : ~is_medallion(v)),
                  SelectSeq(area_infos(neutopia[1].areas, a), LAMBDA v : ~is_medallion(v)))
        /\ medallions_and_other_areas_kept

\* C23 amended: the same, for the crypts whose chest objects name pairwise
\* different chest-table slots.
C23_ShufflePermutesDistinctSlots ==
    (update # None /\ update[1].ok) =>
        /\ \A a \in FirstWrittenArea..11 :
              NoDuplicates(area_slots(update[1].before[a], 1)) =>
                  same_multiset(
                      SelectSeq(area_infos(update[1].before, a), LAMBDA v : ~is_medallion(v)),
                      SelectSeq(area_infos(neutopia[1].areas, a), LAMBDA v : ~is_medallion(v)))
        /\ medallions_and_other_areas_kept

\* C23 witness: the crypt with chests A, B and the medallion was shuffled:
\* A and B changed places and the medallion stayed.
C23_Witness ==
    /\ update # None
    /\ update[1].ok
    /\ area_infos(update[1].before, UpdateArea) = <<ChestA, ChestB, ChestM>>
    /\ area_infos(neutopia[1].areas, UpdateArea) = <<ChestB, ChestA, ChestM>>

\* C18: building the game model splices at most one conditional out of a
\* room: the scan of a room stops at the first chest object followed by an
\* Unknown0b entry, and the entries after it stay in the room's table.
C18_OneConditionalPerRoom ==
    (neutopia # None /\ neutopia[1].ok) =>
        \A a \in DOMAIN neutopia[1].areas : \A r \in 1..NumRooms :
            neutopia[1].areas[a].rooms[r].objects =
                scan_conditionals_first(
                    parse_object_table(rom[1].room_info_tables[a][r].object_table).table,
                    rom[1].chest_tables[rom[1].chest_table_pointers[a]],
                    EmptyMap, 0).objects

\* the entries of the object table written for room r of area a
written_objects(a, r) ==
    LET w == image[1].writes[CHOOSE k \in 1..Len(image[1].writes) :
                                image[1].writes[k].what =
                                    [kind |-> "room_tables", area |-> a, room |-> r - 1]]
        room == neutopia[1].areas[a].rooms[r]
        skip == Len(room.warps) + Len(room.enemies) + 1
    IN  parse_object_table(SubSeq(w.bytes, skip + 1, Len(w.bytes) - 1)).table

\* the entries of a room with, after every chest object whose chest value is
\* a key of the map, that conditional's entries moved to the object's place
RECURSIVE with_conditionals(_, _, _)
with_conditionals(objects, chest_table, conds) ==
    IF objects = <<>> THEN <<>>
    ELSE LET e == Head(objects)
             slots == chest_slots(<<e>>)
         IN  <<e>>
             \o (IF slots # <<>> /\ chest_table[slots[1] + 1] \in DOMAIN conds
                 THEN patched(conds[chest_table[slots[1] + 1]], <<e.x, e.y>>)
                 ELSE <<>>)
             \o with_conditionals(Tail(objects), chest_table, conds)

\* C19: in every room of a relocated area, every chest object whose current
\* chest value is a key of the conditionals map is followed in the written
\* object table by that conditional's two entries, in order, the Object
\* entries among them moved to the chest object's place; no other entry is
\* added.
C19_ConditionalAfterEveryKeyedChest ==
    (image # None /\ image[1].ok) =>
        \A a \in FirstWrittenArea..LastArea : \A r \in 1..NumRooms :
            written_objects(a, r) =
                with_conditionals(neutopia[1].areas[a].rooms[r].objects,
                                  neutopia[1].areas[a].chest_table,
                                  neutopia[1].conditionals)

\* C20: write relocates the chest table of every area from 4 to 0xf and of
\* no other: the output holds the area's eight chests at 0x4fe00 +
\* 0x20 * area, four bytes each in the order item_id, arg, text, unknown, and
\* the encoding of that offset in the area's entry of the chest-pointer
\* table; the entries and the relocation slots of the other areas are as in
\* the input.
C20_ChestTablesRelocated ==
    (image # None /\ image[1].ok) =>
        \A a \in 0..LastArea :
            LET offset == RelocatedChests + ChestTableBytes * a
                entry == rom[1].rommap.CHEST_TABLE + 3 * a
                out(o, len) == read(rom[1], image[1].writes, o, len)
                chest_table == neutopia[1].areas[a].chest_table
            IN  IF FirstWrittenArea <= a /\ a <= LastArea
                THEN /\ Len(chest_table) = ChestTableLen
                     /\ out(offset, ChestTableBytes) =
                            [j \in 1..ChestTableBytes |->
                                LET chest == chest_table[((j - 1) \div 4) + 1]
                                IN  CASE (j - 1) % 4 = 0 -> chest.item_id
                                      [] (j - 1) % 4 = 1 -> chest.arg
                                      [] (j - 1) % 4 = 2 -> chest.text
                                      [] (j - 1) % 4 = 3 -> chest.unknown]
                     /\ out(entry, 3) = rom_offset_to_pointer(offset)
                     /\ pointer_to_rom_offset(out(entry, 3)) = [ok |-> TRUE, offset |-> offset]
                ELSE /\ out(offset, ChestTableBytes) =
                            [j \in 1..ChestTableBytes |-> rom_data(rom[1], offset + j - 1)]
                     /\ out(entry, 3) = rom_offset_to_pointer(rom[1].chest_table_pointers[a])

\* C20 witness: the chests of area 4 were shuffled so that slot 0 holds
\* chest B, and the written image holds B's four bytes at 0x4fe80 and the
\* pointer to 0x4fe80 in area 4's entry.
C20_Witness ==
    /\ image # None
    /\ image[1].ok
    /\ update # None
    /\ neutopia[1].areas[FirstWrittenArea].chest_table[1] = ChestB
    /\ read(rom[1], image[1].writes, 327296, 4) = <<4, 2, 8, 1>>
    /\ read(rom[1], image[1].writes, rom[1].rommap.CHEST_TABLE + 12, 3)
            = rom_offset_to_pointer(327296)

----------------------------------------------------------------------------
(* The layout of the area data in the written image. *)

\* the write the image's log holds for a part of an area
write_of(kind, a, r) ==
    image[1].writes[CHOOSE k \in 1..Len(image[1].writes) :
                        image[1].writes[k].what = [kind |-> kind, area |-> a, room |-> r]]

\* the offset a pointer of the written image at offset o decodes to
pointer_at(o) == pointer_to_rom_offset(read(rom[1], image[1].writes, o, 3))

\* the offset at which the written image holds area a's room pointers
area_start(a) == write_of("room_ptrs", a, -1).offset

\* the offset after the last byte write put down for room r (0-based) of area a
room_end(a, r) ==
    write_of("room_tables", a, r).offset + Len(write_of("room_tables", a, r).bytes)

\* C21: the relocated areas are packed back to back from area 4's original
\* offset on; an area starts with its table of room pointers, room k's
\* pointer decodes to the start of room k's record, a record is 9 pointer
\* bytes followed by the warp table, the enemy table and 0xff, the object
\* table and 0xff without gap, and its three pointers decode to the starts of
\* the three tables.
C21_AreasPackedBackToBack ==
    (image # None /\ image[1].ok) =>
        \A a \in FirstWrittenArea..LastArea :
            /\ area_start(a) = IF a = FirstWrittenArea
                               THEN rom[1].area_pointers[FirstWrittenArea]
                               ELSE room_end(a - 1, NumRooms - 1)
            /\ pointer_at(rom[1].rommap.AREA_TABLE + 3 * a)
                    = [ok |-> TRUE, offset |-> area_start(a)]
            /\ Len(write_of("room_ptrs", a, -1).bytes) = 3 * NumRooms
            /\ \A r \in 0..(NumRooms - 1) :
                LET room == neutopia[1].areas[a].rooms[r + 1]
                    record == write_of("room", a, r).offset
                    tables == write_of("room_tables", a, r)
                    objects == Len(tables.bytes) - Len(room.warps) - Len(room.enemies) - 2
                IN  /\ record = IF r = 0 THEN area_start(a) + 3 * NumRooms
                                ELSE room_end(a, r - 1)
                    /\ pointer_at(area_start(a) + 3 * r) = [ok |-> TRUE, offset |-> record]
                    /\ Len(write_of("room", a, r).bytes) = 9
                    /\ tables.offset = record + 9
                    /\ objects >= 0
                    /\ read(rom[1], image[1].writes, tables.offset, Len(tables.bytes))
                            = room.warps \o room.enemies \o <<255>>
                                \o write_table(written_objects(a, r + 1)) \o <<255>>
                    /\ pointer_at(record) = [ok |-> TRUE, offset |-> record + 9]
                    /\ pointer_at(record + 3)
                            = [ok |-> TRUE, offset |-> record + 9 + Len(room.warps)]
                    /\ pointer_at(record + 6)
                            = [ok |-> TRUE,
                               offset |-> record + 9 + Len(room.warps) + Len(room.enemies) + 1]

\* C21 witness: a written image in which a room of area 4 got a conditional
\* back, so that area 5 starts further on than after an area of empty rooms
C21_Witness ==
    /\ image # None
    /\ image[1].ok
    /\ \E r \in 1..NumRooms :
            Len(written_objects(FirstWrittenArea, r))
                > Len(neutopia[1].areas[FirstWrittenArea].rooms[r].objects)
    /\ pointer_at(rom[1].rommap.AREA_TABLE + 3 * (FirstWrittenArea + 1)).ok
    /\ area_start(FirstWrittenArea + 1)
            > rom[1].area_pointers[FirstWrittenArea] + NumRooms * (3 + 9 + 5)

----------------------------------------------------------------------------
(* global_rando (rando/src/lib.rs) as a state machine over the State: one   *)
(* step per placement, the random choices taken in every possible way, and *)
(* the write of the image once finalize has returned.                      *)

\* where global_rando puts the book and the moss
BookLoc == LocationId(12, 9, 0)
MossLoc == LocationId(12, 17, 1)

Book == Chest(13, 0)
Moss == Chest(5, 0)
Medicine == Chest(1, 0)
FireWand == Chest(2, 0)
FalconShoes == Chest(11, 0)
RainbowDrop == Chest(12, 0)

\* the rooms of an area in the images global_rando is run on
GlobalNumRooms == IF NumRooms > MossLoc.room THEN NumRooms ELSE MossLoc.room + 1

\* the entries of an area's rooms, all empty but those given
RoomsWith(filled) ==
    [r \in 1..GlobalNumRooms |-> IF r \in DOMAIN filled THEN filled[r] ELSE <<>>]

TableOf(chests) ==
    [i \in 1..ChestTableLen |-> IF i <= Len(chests) THEN chests[i] ELSE Medallion]

ChestObject(slot) == Object(slot, slot, ChestObjectBase + slot)

\* The image in which crypt 5 holds the given chests, three in room 0 and
\* the others in room 1, and area 0xc the book in room 9 and a chest and the
\* moss in room 0x11; the chest beside the moss holds the given value, and
\* room 0 of area 3 the given chests.  Every other room is empty.  Every
\* area has the same number of rooms, as many as the room of the moss asks
\* for when NumRooms is fewer.
GlobalRom(crypt, beside, overworld) ==
    Image(CHOOSE l \in Layouts : l.area4 = 328014,
          [a \in 0..LastArea |->
              IF a = 5 THEN TableOf(crypt)
              ELSE IF a = 12 THEN TableOf(<<Book, beside, Moss>>)
              ELSE IF a = 3 THEN TableOf(overworld)
              ELSE TableOf(<<>>)],
          [a \in 0..LastArea |->
              IF a = 5
              THEN RoomsWith((1 :> <<ChestObject(0), ChestObject(1), ChestObject(2)>>)
                             @@ (2 :> <<ChestObject(3), DarkRoom>>
                                      \o [i \in 1..(Len(crypt) - 4) |-> ChestObject(i + 3)]))
              ELSE IF a = 12
              THEN RoomsWith(((BookLoc.room + 1) :> <<ChestObject(0)>>)
                             @@ ((MossLoc.room + 1) :> <<ChestObject(1), DarkRoom,
                                                        ChestObject(2)>>))
              ELSE IF a = 3
              THEN RoomsWith(1 :> [i \in 1..Len(overworld) |-> ChestObject(i - 1)])
              ELSE RoomsWith(<<>>)])

\* the roms of the model.  Three hold the crystal ball, the four gate items
\* and the wings in crypt 5: nine different chest values, the wings twice,
\* or a second crystal ball, locked to area 0xc.  One holds the four gate
\* items in crypt 5 and a crypt key in area 3, locked to it.
GlobalRoms ==
    LET crypt == <<CrystalBall, FireWand, SkyBell, FalconShoes, RainbowDrop, Wings>>
    IN  {GlobalRom(crypt, Medicine, <<>>), GlobalRom(crypt, Wings, <<>>),
         GlobalRom(crypt, CrystalBall, <<>>),
         GlobalRom(SubSeq(crypt, 2, 5), Medicine, <<CryptKey>>)}

\* one check per chest of a rom with so many chests in crypt 5, the chest
\* beside the moss behind a gate, and the given checks of area 3
GlobalCatalog(beside_gates, crypt_checks, overworld) ==
    SubSeq(<<JsonCheck("book", 12, 9, None, <<>>),
             JsonCheck("beside moss", 12, 17, None, beside_gates),
             JsonCheck("moss", 12, 17, Some(1), <<>>),
             JsonCheck("crypt first", 5, 0, None, <<>>),
             JsonCheck("crypt second", 5, 0, Some(1), <<>>),
             JsonCheck("crypt third", 5, 0, Some(2), <<"FireWand">>),
             JsonCheck("crypt fourth", 5, 1, None, <<"Bell">>),
             JsonCheck("crypt fifth", 5, 1, Some(1), <<"FireWand", "Bell">>),
             JsonCheck("crypt sixth", 5, 1, Some(2), <<"RainbowDrop", "FalconShoes">>)>>,
           1, 3 + crypt_checks)
    \o overworld

\* the catalog of the roms with six chests in crypt 5, and the catalog of
\* the rom with four, whose checks outside the crypt are behind every gate
GlobalCatalogs ==
    LET gates == <<"FireWand", "Bell", "FalconShoes", "RainbowDrop">>
    IN  {GlobalCatalog(<<"RainbowDrop">>, 6, <<>>),
         GlobalCatalog(gates, 4, <<JsonCheck("overworld", 3, 0, None, gates)>>)}

\* Neutopia::new(rom_data)? and State::new(n)? have returned
GlobalInit ==
    /\ \E r \in GlobalRoms, catalog \in GlobalCatalogs :
        LET nt == Neutopia_new(r)
            st == State_new(nt.areas, catalog)
        IN  /\ nt.ok
            /\ st.ok
            /\ Len(catalog) = Len(filter_chests(nt.areas, [kind |-> "placeable"]).chests)
            /\ rom = Some(r)
            /\ neutopia = Some(nt)
            /\ n = nt.areas
            /\ unassigned_checks = st.unassigned_checks
            /\ unplaced_items = st.unplaced_items
            /\ cleared_gates = st.cleared_gates
            /\ assigned_chests = st.assigned_chests
    /\ update = None
    /\ image = None
    /\ phase = "live"
    /\ last = [op |-> "new"]
    /\ placed_items = {}
    /\ rando_pc = "start"
    /\ rando_items = <<>>
    /\ rando_area = 0
    /\ IdleCatalog /\ IdlePointer /\ IdleObject /\ IdleStore

\* the loop over the areas 4..=0xf from area on: the first area with items
\* locked to it, or the end of the loop
RECURSIVE next_locked(_, _)
next_locked(st, area) ==
    IF area > 15 THEN [pc |-> "shuffle_gates", items |-> <<>>, area |-> area]
    ELSE IF filter_items(st, [kind |-> "locked", area |-> area]) # <<>>
    THEN [pc |-> "locked", area |-> area,
          items |-> filter_items(st, [kind |-> "locked", area |-> area])]
    ELSE next_locked(st, area + 1)

\* where global_rando is after a place_item* call returned r at position
\* pc with the items rest still to place
after_place(r, pc, rest, area) ==
    IF r.result = "Panic" THEN [pc |-> "panicked", items |-> <<>>, area |-> area]
    ELSE IF r.result # "Ok" THEN [pc |-> "failed", items |-> <<>>, area |-> area]
    ELSE IF pc = "start" THEN [pc |-> "moss", items |-> rest, area |-> area]
    ELSE IF pc = "moss" THEN next_locked(r.st, 4)
    ELSE IF pc = "locked" /\ rest = <<>> THEN next_locked(r.st, area + 1)
    ELSE IF pc = "gates" /\ rest = <<>> THEN [pc |-> "shuffle_rest", items |-> <<>>, area |-> area]
    ELSE [pc |-> pc, items |-> rest, area |-> area]

\* a place_item* call of global_rando and the statement it goes on with
Places(op, item, l, rest) ==
    LET r == place_item_by_loc(Fields, item, l)
        to == after_place(r, rando_pc, rest, rando_area)
    IN  /\ unassigned_checks' = r.st.unassigned_checks
        /\ unplaced_items' = r.st.unplaced_items
        /\ cleared_gates' = r.st.cleared_gates
        /\ assigned_chests' = r.st.assigned_chests
        /\ phase' = IF r.result = "Panic" THEN "panicked" ELSE "live"
        /\ last' = [op |-> op, item |-> item, loc |-> l, result |-> r.result]
        /\ placed_items' = IF r.result = "Ok" THEN placed_items \cup {item} ELSE placed_items
        /\ rando_pc' = to.pc
        /\ rando_items' = to.items
        /\ rando_area' = to.area
        /\ UNCHANGED <<n, catalogVars, pointerVars, objectVars, storeVars, gameVars>>

\* global_rando stops: a `?` returned the error, or an unwrap or assert panicked
Stops(pc, what) ==
    /\ rando_pc' = pc
    /\ rando_items' = <<>>
    /\ last' = [op |-> what, result |-> IF pc = "panicked" THEN "Panic" ELSE "Err"]
    /\ phase' = IF pc = "panicked" THEN "panicked" ELSE phase
    /\ UNCHANGED <<n, unassigned_checks, unplaced_items, cleared_gates, assigned_chests,
                   placed_items, rando_area, catalogVars, pointerVars, objectVars,
                   storeVars, gameVars>>

\* get_item_by_id for the book and the moss, then place_item(book, 0xc, 0x9, 0x0)
PlaceBook ==
    /\ rando_pc = "start"
    /\ LET book == get_item_by_id(Fields, 13)
           moss == get_item_by_id(Fields, 5)
       IN  IF book.ok /\ moss.ok
           THEN Places("place_item", book.item, BookLoc, <<moss.item>>)
           ELSE Stops("failed", "get_item_by_id")

\* place_item(moss, 0xc, 0x11, 0x1)
PlaceMoss ==
    /\ rando_pc = "moss"
    /\ Places("place_item", rando_items[1], MossLoc, <<>>)

\* one round of the loop over the items locked to rando_area
PlaceLocked ==
    /\ rando_pc = "locked"
    /\ LET checks == filter_checks_gateless(Fields, [kind |-> "area", area |-> rando_area])
       IN  IF checks = <<>> THEN Stops("panicked", "choose")
           ELSE \E k \in 1..Len(checks) :
                    Places("place_item_by_loc", Head(rando_items), loc(checks[k]),
                           Tail(rando_items))

\* filter_items for the four gate items, then items.shuffle(rng)
ShuffleGates ==
    /\ rando_pc = "shuffle_gates"
    /\ rando_items' \in shuffles(filter_items(Fields, [kind |-> "gate_items"]))
    /\ rando_pc' = IF filter_items(Fields, [kind |-> "gate_items"]) = <<>>
                   THEN "shuffle_rest" ELSE "gates"
    /\ last' = [op |-> "shuffle"]
    /\ UNCHANGED <<n, unassigned_checks, unplaced_items, cleared_gates, assigned_chests,
                   phase, placed_items, rando_area, catalogVars, pointerVars, objectVars,
                   storeVars, gameVars>>

\* one round of the loop placing the gate items: the last of items is popped
PlaceGate ==
    /\ rando_pc = "gates"
    /\ LET checks == filter_checks(Fields, [kind |-> "all"])
       IN  IF checks = <<>> THEN Stops("panicked", "choose")
           ELSE \E k \in 1..Len(checks) :
                    Places("place_item_by_loc", rando_items[Len(rando_items)],
                           loc(checks[k]), SubSeq(rando_items, 1, Len(rando_items) - 1))

\* filter_items for all that is left, then items.shuffle(rng)
ShuffleRest ==
    /\ rando_pc = "shuffle_rest"
    /\ rando_items' \in shuffles(filter_items(Fields, [kind |-> "all"]))
    /\ rando_pc' = "rest"
    /\ last' = [op |-> "shuffle"]
    /\ UNCHANGED <<n, unassigned_checks, unplaced_items, cleared_gates, assigned_chests,
                   phase, placed_items, rando_area, catalogVars, pointerVars, objectVars,
                   storeVars, gameVars>>

\* one round of the last loop: is_complete returned false
PlaceRest ==
    /\ rando_pc = "rest"
    /\ IF ~lengths_agree(unassigned_checks, unplaced_items)
       THEN Stops("panicked", "is_complete")
       ELSE /\ DOMAIN unassigned_checks # {}
            /\ LET checks == filter_checks(Fields, [kind |-> "all"])
               IN  IF checks = <<>> THEN Stops("panicked", "choose")
                   ELSE IF rando_items = <<>> THEN Stops("panicked", "pop")
                   ELSE \E k \in 1..Len(checks) :
                            Places("place_item_by_loc", rando_items[Len(rando_items)],
                                   loc(checks[k]),
                                   SubSeq(rando_items, 1, Len(rando_items) - 1))

\* is_complete returned true: state.finalize()
GlobalFinalize ==
    /\ rando_pc = "rest"
    /\ lengths_agree(unassigned_checks, unplaced_items)
    /\ DOMAIN unassigned_checks = {}
    /\ LET r == finalize(n, Fields)
       IN  /\ n' = r.areas
           /\ rando_pc' = IF r.ok THEN "done" ELSE "failed"
           /\ last' = [op |-> "finalize", result |-> IF r.ok THEN "Ok" ELSE "Err"]
    /\ phase' = "finalized"
    /\ UNCHANGED <<unassigned_checks, unplaced_items, cleared_gates, assigned_chests,
                   placed_items, rando_items, rando_area, catalogVars, pointerVars,
                   objectVars, storeVars, gameVars>>

\* finalize returned the game: n.write(), whose result global_rando returns
GlobalWrite ==
    /\ rando_pc = "done"
    /\ \E w \in {write(nt, rom[1]) : nt \in {[neutopia[1] EXCEPT !.areas = n]}} :
           /\ image' = Some(w)
           /\ rando_pc' = IF w.ok THEN "written" ELSE "panicked"
           /\ last' = [op |-> "write", result |-> IF w.ok THEN "Ok" ELSE "Panic"]
           /\ phase' = IF w.ok THEN phase ELSE "panicked"
    /\ UNCHANGED <<n, unassigned_checks, unplaced_items, cleared_gates, assigned_chests,
                   placed_items, rando_items, rando_area, rom, neutopia, update,
                   catalogVars, pointerVars, objectVars, storeVars>>

GlobalNext ==
    \/ PlaceBook
    \/ PlaceMoss
    \/ PlaceLocked
    \/ ShuffleGates
    \/ PlaceGate
    \/ ShuffleRest
    \/ PlaceRest
    \/ GlobalFinalize
    \/ GlobalWrite

SpecGlobal == GlobalInit /\ [][GlobalNext]_vars

----------------------------------------------------------------------------
(* Properties of global_rando. *)

GateItemIdsAll == {2, 3, 11, 12}

\* C22: every placement of a gate-granting item (ids 0x02, 0x03, 0x0b, 0x0c)
\* and every placement of the final loop is at a check that was unassigned
\* and whose gates were all in cleared_gates in the state just before the
\* placement.
C22_PlacedAtOpenChecks ==
    [][(/\ rando_pc \in {"start", "moss", "locked", "gates", "rest"}
        /\ last'.op \in PlaceOps
        /\ last'.result = "Ok"
        /\ (last'.item.info.item_id \in GateItemIdsAll \/ rando_pc = "rest"))
       => /\ last'.loc \in DOMAIN unassigned_checks
          /\ \A g \in Range(unassigned_checks[last'.loc].gates) : g \in cleared_gates]_vars

\* C22 witness: a gate item was placed at the check gated by the bell right
\* after the placement of the bell, which opened it.
C22_Witness ==
    /\ rando_pc \in {"gates", "shuffle_rest"}
    /\ last.op = "place_item_by_loc"
    /\ last.result = "Ok"
    /\ last.loc = LocationId(5, 1, 0)
    /\ last.item.info.item_id \in GateItemIdsAll
    /\ Len(assigned_chests) >= 2
    /\ assigned_chests[Len(assigned_chests) - 1].info = SkyBell

\* the areas in which the rom holds a chest of the given value
found_in(areas, info) ==
    {c.area : c \in {x \in Range(filter_chests(areas, [kind |-> "placeable"]).chests) : x.info = info}}

\* C24: every recorded assignment of a crystal ball (0x10) or a crypt key
\* (0x11) is to a check of an area in which the rom holds that item, after
\* any sequence of place_item* calls; finalize records nothing.
C24_LockedItemsStayInArea ==
    /\ [](phase # "finalized" =>
            \A i \in 1..Len(assigned_chests) :
                assigned_chests[i].info.item_id \in {16, 17} =>
                    assigned_chests[i].area \in found_in(n, assigned_chests[i].info))
    /\ [][phase' = "finalized" => assigned_chests' = assigned_chests]_vars

\* C24 witness: the crystal ball found in area 5 is recorded at a check of
\* area 5 while a check of area 6 was unassigned when it was placed.
C24_Witness ==
    /\ phase = "live"
    /\ last.op \in PlaceOps
    /\ last.result = "Ok"
    /\ last.item = Item(CrystalBall, Some(5))
    /\ assigned_chests[Len(assigned_chests)].info = CrystalBall
    /\ assigned_chests[Len(assigned_chests)].area = 5
    /\ LocationId(6, 0, 0) \in DOMAIN unassigned_checks

\* C25: the recorded assignments are at pairwise different locations, none
\* of them still in unassigned_checks, and the recorded assignments and the
\* unassigned checks together are as many as the catalog's checks.
C25_PlacementsConsumeChecks ==
    /\ \A i, j \in 1..Len(assigned_chests) :
          loc(assigned_chests[i]) = loc(assigned_chests[j]) => i = j
    /\ \A i \in 1..Len(assigned_chests) :
          loc(assigned_chests[i]) \notin DOMAIN unassigned_checks
    /\ Len(assigned_chests) + Cardinality(DOMAIN unassigned_checks) = Len(ModelCatalog)

\* C26: the State that State::new returns has as many unplaced items as
\* filter_chests selects chests with area < 0x10 and item_id < 0x12.
C26_OneItemPerSelectedChest ==
    last.op = "new" =>
        Cardinality(unplaced_items) = Len(filter_chests(n, [kind |-> "placeable"]).chests)

\* the triples a decoded triple is compared with: every second and third
\* byte of the pointer model, and first bytes at most MaxFirstGap away
MaxFirstGap == 1

NearTriples(d) ==
    {<<b0, b1, b2>> : b0 \in {b \in FirstBytes : b - d[1] \in (0 - MaxFirstGap)..MaxFirstGap},
                      b1 \in SecondBytes, b2 \in ThirdBytes}

\* C30: two triples whose raw values are at least 0x40000 both decode, and
\* they decode to the same offset exactly when they agree on the first byte,
\* the second byte and the low five bits of the third byte; the offset is
\* the raw value less 0x40000 and fits 32 bits.
C30_DecodeInjectiveOnFields ==
    (decoded # None /\ RawValue(data) >= BankBase) =>
        /\ decoded[1].ok
        /\ decoded[1].offset \in 0..(2 ^ 21 - 1)
        /\ \A e \in NearTriples(data) :
              RawValue(e) >= BankBase =>
                  /\ pointer_to_rom_offset(e).ok
                  /\ pointer_to_rom_offset(e).offset = decoded[1].offset
                        <=> (e[1] = data[1] /\ e[2] = data[2] /\ e[3] % 32 = data[3] % 32)

\* C30 witness: (0x48, 0x4e, 0x45) was decoded to 0x5054e, the offset that
\* (0x48, 0x4e, 0x05) decodes to as well, and (0x48, 0x4e, 0x51) decodes to
\* another one.
C30_Witness ==
    /\ data = <<72, 78, 69>>
    /\ decoded = Some([ok |-> TRUE, offset |-> 329038])
    /\ pointer_to_rom_offset(<<72, 78, 5>>) = decoded[1]
    /\ pointer_to_rom_offset(<<72, 78, 81>>).ok
    /\ pointer_to_rom_offset(<<72, 78, 81>>) # decoded[1]

----------------------------------------------------------------------------
(* Images whose area data lies anywhere.  area_pointers[4] is read from    *)
(* the image and write starts the area data there; nothing compares it     *)
(* with the positions of the relocated chest tables.                       *)

\* the end of the last relocated chest table, 0x50000
RelocatedEnd == RelocatedChests + ChestTableBytes * (LastArea + 1)

\* an image whose area 4 starts eight bytes before the relocated chest
\* table of area 5
LowLayout ==
    [AREA_TABLE |-> 262400, CHEST_TABLE |-> 262656, old_chests |-> 263168,
     area0 |-> 266240, area4 |-> RelocatedChests + ChestTableBytes * (FirstWrittenArea + 1) - 8]

LayoutImages ==
    {MkImage(fa, room0, <<C1>>, UpdateArea, <<C0, C1, C2>>, layout) :
        fa \in FocusAreas, room0 \in ConcatsUpTo(GameGroups, 1),
        layout \in Layouts \cup {LowLayout}}

LayoutInit ==
    /\ rom \in {Some(r) : r \in LayoutImages}
    /\ neutopia = None /\ update = None /\ image = None
    /\ IdleState /\ IdleCatalog /\ IdlePointer /\ IdleObject /\ IdleStore

SpecLayout == LayoutInit /\ [][GameNext]_vars

\* the bytes [offset, offset + len) two writes take do not meet
apart(v, w) ==
    v.offset + Len(v.bytes) <= w.offset \/ w.offset + Len(w.bytes) <= v.offset

AreaDataKinds == {"room_tables", "room", "room_ptrs"}

\* the relocated chest tables lie apart from each other, each at 0x4fe00 +
\* 0x20 * area and four bytes a chest long
chest_tables_apart ==
    LET ws == image[1].writes
        tables == {k \in 1..Len(ws) : ws[k].what.kind = "chests"}
    IN  /\ {ws[k].what.area : k \in tables} = FirstWrittenArea..LastArea
        /\ \A k \in tables :
              /\ ws[k].offset = RelocatedChests + ChestTableBytes * ws[k].what.area
              /\ Len(ws[k].bytes) = 4 * Len(neutopia[1].areas[ws[k].what.area].chest_table)
        /\ \A k, m \in tables : k # m => apart(ws[k], ws[m])

\* no area data is written over a relocated chest table, and the output
\* holds every table as it was written
chest_tables_kept ==
    LET ws == image[1].writes
    IN  \A k \in 1..Len(ws) :
            ws[k].what.kind = "chests" =>
                /\ \A m \in (k + 1)..Len(ws) :
                      ws[m].what.kind \in AreaDataKinds => apart(ws[k], ws[m])
                /\ read(rom[1], ws, ws[k].offset, Len(ws[k].bytes)) = ws[k].bytes

\* C29 as stated: the relocated chest tables take pairwise disjoint byte
\* ranges [0x4fe00 + 0x20*a, 0x4fe00 + 0x20*a + 4*|chest_table(a)|), and no
\* area data written afterwards overwrites one of them.
C29_ChestTablesNeverOverwritten ==
    (image # None /\ image[1].ok) => chest_tables_apart /\ chest_tables_kept

\* C29 amended: the relocated chest tables take pairwise disjoint byte
\* ranges, and no area data overwrites one of them when area 4's room data
\* starts at or above 0x50000, the end of the last relocated table.
C29_ChestTablesKeptAboveRegion ==
    (image # None /\ image[1].ok) =>
        /\ chest_tables_apart
        /\ rom[1].area_pointers[FirstWrittenArea] >= RelocatedEnd => chest_tables_kept

\* C29 witness: an image whose area data starts at 0x50000, right after the
\* last relocated chest table, was written after a shuffle round; the
\* tables of areas 4 and 0xf are 32 bytes each at 0x4fe80 and 0x4ffe0.
C29_Witness ==
    /\ image # None
    /\ image[1].ok
    /\ update # None
    /\ rom[1].area_pointers[FirstWrittenArea] = RelocatedEnd
    /\ \E k, m \in 1..Len(image[1].writes) :
          /\ image[1].writes[k].what = [kind |-> "chests", area |-> FirstWrittenArea, room |-> -1]
          /\ image[1].writes[k].offset = 327296
          /\ Len(image[1].writes[k].bytes) = ChestTableBytes
          /\ image[1].writes[m].what = [kind |-> "chests", area |-> LastArea, room |-> -1]
          /\ image[1].writes[m].offset = 327648
          /\ image[1].writes[m].what.kind = "chests"
          /\ \E j \in 1..Len(image[1].writes) :
                /\ image[1].writes[j].what.kind = "room_ptrs"
                /\ image[1].writes[j].offset = RelocatedEnd

\* C28: when an imported game is written without a chest update, every
\* room of the areas 4 to 0xf is written with the object table the input
\* image had for it, entry for entry.
C28_UnchangedRoomsRoundTrip ==
    (image # None /\ image[1].ok /\ update = None) =>
        \A a \in FirstWrittenArea..LastArea : \A r \in 1..NumRooms :
            write_table(written_objects(a, r)) = rom[1].room_info_tables[a][r].object_table

----------------------------------------------------------------------------
(* Termination of global_rando.  The function is sequential code: each     *)
(* statement is run once the one before it has returned, so a run that has *)
(* not returned goes on.  A returned error and a panic end the run.        *)

RandoPcs ==
    {"start", "moss", "locked", "shuffle_gates", "gates", "shuffle_rest", "rest",
     "done", "written", "failed", "panicked"}

Returned == rando_pc \in {"written", "failed", "panicked"}

\* where the run is: the statement it is at, the area the loop over the
\* locked items is at and the items it has left to pop
position == <<rando_pc, rando_area, Len(rando_items)>>

\* a step of a run that has not returned: it goes to another statement, on
\* to a later area, or round its loop with one item fewer; either way the
\* position changes
Proceeds ==
    /\ ~Returned
    /\ \/ /\ rando_pc' \in RandoPcs \ {rando_pc}
          /\ rando_area' = rando_area
          /\ rando_items' = rando_items
       \/ position' # position

SpecGlobalFair == GlobalInit /\ [][GlobalNext]_vars /\ WF_position(Proceeds)

\* every step of global_rando is one that Proceeds, and a run that has not
\* returned is at a statement global_rando has
EveryStepProceeds ==
    [][Proceeds /\ rando_pc' \in RandoPcs]_vars

\* the final loop is at its head, the four gate-granting items are placed
\* and the pools are of one size
InFinalLoop ==
    /\ rando_pc = "rest"
    /\ GateItemIdsAll \subseteq {i.info.item_id : i \in placed_items}
    /\ lengths_agree(unassigned_checks, unplaced_items)

\* C27: every run of global_rando ends; at the head of the final loop,
\* with the four gate-granting items placed and the pools of one size, the
\* open checks are not empty while items remain and the items left to pop
\* are the unplaced ones; a round of the loop places exactly one item at
\* one check and comes back to the head, and the loop is left only with
\* both pools empty.
C27_FinalLoopRunsToCompletion ==
    /\ <>Returned
    /\ EveryStepProceeds
    /\ [](InFinalLoop =>
            /\ unplaced_items # {} => filter_checks(Fields, [kind |-> "all"]) # <<>>
            /\ Range(rando_items) = unplaced_items
            /\ Len(rando_items) = Cardinality(unplaced_items))
    /\ [][InFinalLoop =>
            \/ /\ unplaced_items # {}
               /\ last'.op = "place_item_by_loc"
               /\ last'.result = "Ok"
               /\ InFinalLoop'
               /\ Len(assigned_chests') = Len(assigned_chests) + 1
               /\ assigned_chests'[Len(assigned_chests')].info = last'.item.info
               /\ unplaced_items' = unplaced_items \ {last'.item}
               /\ last'.item \in unplaced_items
               /\ DOMAIN unassigned_checks' = DOMAIN unassigned_checks \ {last'.loc}
               /\ last'.loc \in DOMAIN unassigned_checks
            \/ /\ unplaced_items = {}
               /\ DOMAIN unassigned_checks = {}
               /\ last'.op = "finalize"
               /\ rando_pc' \in {"done", "failed"}]_vars
    /\ [](rando_pc \in {"done", "written"} =>
            unplaced_items = {} /\ DOMAIN unassigned_checks = {})

====
